---- MODULE Spec2Model ----
(***************************************************************************)
(* Model of SecurityPipeline (src/src/agentic_security/security_pipeline.py)*)
(* run_pipeline is one sequential handler; it is cut into one action per   *)
(* external call (cache, scanners, aider, git, gh, webhook), each action   *)
(* carrying the code between two calls.  Severities are in tenths          *)
(* (7.0 is 70), so that CVSS scores such as 9.8 stay integers.             *)
(***************************************************************************)
EXTENDS Integers, Sequences, FiniteSets, TLC

\* ------------------------------------------------------------------ bounds
MaxFix == 3
MaxSuggestions == 1
MaxRuns == 2
MaxFindings == 2
MaxFiles == 2
MaxTargets == 2
MaxRequests == 2
MaxWindow == 2
MaxClock == 2
MaxCalls == 2

\* ------------------------------------------------------- python values
\* One group ('web' or 'code') of a dict: is the key there, is it bound to a
\* list, and the result entries of that list.
NoGroup == [present |-> FALSE, islist |-> FALSE, items |-> <<>>]
NonListGroup == [present |-> TRUE, islist |-> FALSE, items |-> <<>>]
ListGroup(s) == [present |-> TRUE, islist |-> TRUE, items |-> s]

\* A python value as far as run_pipeline looks at it: its type t, its 'web'
\* and 'code' members, and a tag for whatever else it holds.  For a str or a
\* list, present says that the membership test `key in value` is true.
Val(t, w, c, x) == [t |-> t, web |-> w, code |-> c, extra |-> x]
NoValue == Val("absent", NoGroup, NoGroup, "")
FalseV == Val("bool", NoGroup, NoGroup, "False")
TrueV == Val("bool", NoGroup, NoGroup, "True")
RaisedV == Val("exception", NoGroup, NoGroup, "propagated")
ScanResult(w, c) == Val("dict", ListGroup(w), ListGroup(c), "")

\* results = {'status': True, 'reviews': []}
PipelineResults == Val("dict", NoGroup, NoGroup, "status,reviews")

\* {'results': results}, the payload saved under 'latest_scan'
ResultsWrapper(v) == Val("dict", NoGroup, NoGroup, "results")

\* --------------------------------------------------------- result entries
\* One result entry (the dict an adapter returns for one target): which of the
\* keys 'zap', 'nuclei', 'dependency' it has, the riskcodes of
\* result['zap'].get('alerts', []), the severity labels of result['nuclei'],
\* the cvssScores (tenths) of result['dependency'].get('vulnerabilities', []),
\* and the pattern categories that have findings.  A riskcode or score of -1
\* and the label "#" stand for a finding that is no dict (.get raises).
Entry(z, a, n, f, d, v, p) ==
    [has_zap |-> z, alerts |-> a, has_nuclei |-> n, findings |-> f,
     has_dependency |-> d, vulnerabilities |-> v, patterns |-> p]

RECURSIVE SeqMax(_)
SeqMax(s) == IF Len(s) = 1 THEN s[1]
             ELSE LET m == SeqMax(Tail(s)) IN IF s[1] >= m THEN s[1] ELSE m

severity_map_case_sensitive(label) ==
    CASE label = "critical" -> 90
      [] label = "high" -> 70
      [] label = "medium" -> 50
      [] label = "low" -> 30
      [] OTHER -> 0

\* severity_map.get(str(finding.get('severity', '')).lower(), 0.0)
severity_map(label) ==
    CASE label \in {"critical", "CRITICAL"} -> 90
      [] label \in {"high", "HIGH"} -> 70
      [] label \in {"medium", "MEDIUM"} -> 50
      [] label \in {"low", "LOW"} -> 30
      [] OTHER -> 0

\* max(...) over a generator: an empty sequence raises ValueError, a finding
\* that is no dict raises AttributeError; both are caught: return 0.0
_get_max_severity(result) ==
    IF result.has_zap
    THEN IF result.alerts = <<>> \/ \E i \in DOMAIN result.alerts : result.alerts[i] < 0
         THEN 0
         ELSE SeqMax([i \in DOMAIN result.alerts |-> result.alerts[i] * 10])
    ELSE IF result.has_nuclei
    THEN IF result.findings = <<>> \/ \E i \in DOMAIN result.findings : result.findings[i] = "#"
         THEN 0
         ELSE SeqMax([i \in DOMAIN result.findings |-> severity_map(result.findings[i])])
    ELSE IF result.has_dependency
    THEN IF result.vulnerabilities = <<>>
            \/ \E i \in DOMAIN result.vulnerabilities : result.vulnerabilities[i] < 0
         THEN 0
         ELSE SeqMax(result.vulnerabilities)
    ELSE 0

\* for check_type in security_results.values() for result in check_type
AllEntries(security_results) == security_results.web.items \o security_results.code.items

\* ------------------------------------------------------ cache validation
\* `key in results`: a dict tests its keys, a str its substrings, a list its
\* elements; anything else raises TypeError.
KeyIn(results, group) ==
    IF results.t \in {"dict", "str", "list"}
    THEN (IF group.present THEN "True" ELSE "False")
    ELSE "TypeError"

_validate_cached_results_no_type_check(results) ==
    /\ KeyIn(results, results.web) = "True"
    /\ KeyIn(results, results.code) = "True"

_validate_cached_results(results) ==
    IF KeyIn(results, results.web) # "True" THEN FALSE        \* missing, or TypeError caught
    ELSE IF KeyIn(results, results.code) # "True" THEN FALSE
    ELSE IF results.t # "dict" THEN FALSE                      \* results[key] raises, caught
    ELSE IF ~results.web.islist THEN FALSE
    ELSE IF ~results.code.islist THEN FALSE
    ELSE TRUE

\* --------------------------------------------------------- pattern adapter
\* security_patterns: the categories in dict order, and the patterns of each
VulnTypes ==
    << "sql_injection", "command_injection", "xss", "weak_crypto", "insecure_auth",
       "xxe", "path_traversal", "insecure_deserialization" >>

security_patterns(vuln_type) ==
    CASE vuln_type = "sql_injection" ->
           {"execute(", "cursor.execute(", "raw_query", "SELECT * FROM", "INSERT INTO",
            "UPDATE", "DELETE FROM"}
      [] vuln_type = "command_injection" -> {"os.system", "subprocess.call", "eval(", "exec("}
      [] vuln_type = "xss" -> {"<script>", "innerHTML", "document.write", "<div>", "user_input"}
      [] vuln_type = "weak_crypto" -> {"md5", "sha1", "DES", "RC4"}
      [] vuln_type = "insecure_auth" -> {"basic_auth", "plaintext_password", "verify=False"}
      [] vuln_type = "xxe" -> {"xml.etree.ElementTree", "xmlparse", "parsexml"}
      [] vuln_type = "path_traversal" -> {"../", "file://", "read_file"}
      [] vuln_type = "insecure_deserialization" -> {"pickle.loads", "yaml.load", "eval("}

\* A file's content is the set of the fragments it is made of.  Lower is
\* str.lower() on a fragment, Substrings the strings of interest a fragment
\* contains, so that `pattern in content` is a membership test.
Lower(fragment) ==
    CASE fragment = "SELECT" -> "select"
      [] fragment = "SELECT * FROM" -> "select * from"
      [] fragment = "INSERT INTO" -> "insert into"
      [] fragment = "UPDATE" -> "update"
      [] fragment = "DELETE FROM" -> "delete from"
      [] fragment = "innerHTML" -> "innerhtml"
      [] fragment = "DES" -> "des"
      [] fragment = "RC4" -> "rc4"
      [] fragment = "verify=False" -> "verify=false"
      [] fragment = "xml.etree.ElementTree" -> "xml.etree.elementtree"
      [] OTHER -> fragment

Substrings(fragment) ==
    CASE fragment = "cursor.execute(" -> {"cursor.execute(", "execute("}
      [] fragment = "SELECT * FROM" -> {"SELECT * FROM", "SELECT"}
      [] fragment = "select * from" -> {"select * from", "select"}
      [] OTHER -> {fragment}

In(pattern, content) == \E fragment \in content : pattern \in Substrings(fragment)
LowerContent(content) == { Lower(fragment) : fragment \in content }

\* for vuln_type, patterns in security_patterns.items(): does the file match
has_sql_pattern(content) ==
    \E pattern \in security_patterns("sql_injection") : In(pattern, LowerContent(content))
has_string_format(content) == In("SELECT", content) /\ In("{", content) /\ In("}", content)

Matches(vuln_type, content) ==
    IF vuln_type = "sql_injection"
    THEN has_sql_pattern(content) \/ has_string_format(content)
    ELSE \E pattern \in security_patterns(vuln_type) : In(pattern, LowerContent(content))

\* 'severity' of the finding appended for a category
PatternSeverity_no_sql_case(vuln_type) ==
    IF vuln_type \in {"command_injection", "insecure_deserialization"} THEN "high" ELSE "medium"
PatternSeverity(vuln_type) ==
    IF vuln_type = "sql_injection" THEN "high"
    ELSE IF vuln_type \in {"command_injection", "insecure_deserialization"} THEN "high"
    ELSE "medium"

\* if file.endswith(('.py', '.js', '.php', '.java'))
ScannedExtensions == {".py", ".js", ".php", ".java"}

\* The findings appended for the file at position i of the walk
FileFindings(i, file) ==
    LET types == SelectSeq(VulnTypes, LAMBDA t : Matches(t, file.content))
    IN  [k \in DOMAIN types |->
            [file |-> i, type |-> types[k], severity |-> PatternSeverity(types[k])]]

\* The walk of lines 170-199 from file i on: open() of an unreadable file
\* raises and leaves the for loops; the findings appended so far stay.
RECURSIVE Walk(_, _, _)
Walk(tree, i, found) ==
    IF i > Len(tree) THEN [findings |-> found, raised |-> FALSE]
    ELSE IF tree[i].ext \notin ScannedExtensions THEN Walk(tree, i + 1, found)
    ELSE IF ~tree[i].readable THEN [findings |-> found, raised |-> TRUE]
    ELSE Walk(tree, i + 1, found \o FileFindings(i, tree[i]))

\* _run_code_security_checks(path): the walk, then the dependency check unless
\* the walk raised; the outer handler sets results['error'].  dependency.ran
\* is false when the launch of dependency-check.sh raised (caught at 210).
_run_code_security_checks(tree, dependency) ==
    LET walk == Walk(tree, 1, <<>>)
    IN  IF walk.raised
        THEN [findings |-> walk.findings, error |-> TRUE, has_dependency |-> FALSE,
              vulnerabilities |-> <<>>]
        ELSE [findings |-> walk.findings, error |-> FALSE,
              has_dependency |-> dependency.ran,
              vulnerabilities |-> IF dependency.ran THEN dependency.vulnerabilities ELSE <<>>]

\* The result entry as _get_max_severity sees it
CodeEntry(r) ==
    Entry(FALSE, <<>>, FALSE, <<>>, r.has_dependency, r.vulnerabilities,
          { r.findings[k].type : k \in DOMAIN r.findings })

\* ------------------------------------------------------------- web adapter
\* One scanner invocation as _run_web_security_checks meets it: subprocess.run
\* raised ("raise": the tool cannot be launched), or it returned and the
\* report file could not be parsed ("no_report"), or the report was read.
ScannerRun(outcome, items) == [outcome |-> outcome, items |-> items]

\* results['zap']: {"error": str(e)} from the handler at 135-137, what
\* _parse_zap_results returns otherwise ({"error": ...} when it cannot read)
ZapResult_no_error_tag(zap) ==
    [error |-> zap.outcome = "no_report",
     alerts |-> IF zap.outcome = "report" THEN zap.items ELSE <<>>]
ZapResult(zap) ==
    [error |-> zap.outcome # "report",
     alerts |-> IF zap.outcome = "report" THEN zap.items ELSE <<>>]

\* results['nuclei']: {"error": str(e)} from the handler at 145-147 (iterating
\* it yields its key, a str: "#"), [{"error": ...}] from _parse_nuclei_results
\* (one dict without 'severity': ""), or the findings read
NucleiResult(nuclei) ==
    [error |-> nuclei.outcome # "report",
     findings |-> CASE nuclei.outcome = "raise" -> <<"#">>
                    [] nuclei.outcome = "no_report" -> <<"">>
                    [] OTHER -> nuclei.items]

\* _run_web_security_checks(url): both scanners, one after the other, each
\* inside its own try/except Exception
_run_web_security_checks(zap, nuclei) ==
    [zap |-> ZapResult(zap), nuclei |-> NucleiResult(nuclei)]

\* The result entry as _get_max_severity sees it
WebEntry(r) == Entry(TRUE, r.zap.alerts, TRUE, r.nuclei.findings, FALSE, <<>>, {})

\* ------------------------------------------------------------ environment
\* What the scanners do for the web targets of a pipeline run
WebRuns ==
    { [zap |-> ScannerRun("raise", <<>>), nuclei |-> ScannerRun("raise", <<>>)],
      [zap |-> ScannerRun("report", <<3, 1>>), nuclei |-> ScannerRun("report", <<"critical">>)] }

\* What _run_web_security_checks can return for a web target: it always sets
\* both 'zap' and 'nuclei' (a scanner that raised leaves an error dict).
WebEntries == { WebEntry(_run_web_security_checks(r.zap, r.nuclei)) : r \in WebRuns }

\* One source file of a tree; a dependency check
File(ext, readable, content) == [ext |-> ext, readable |-> readable, content |-> content]
DependencyRun(ran, vulnerabilities) == [ran |-> ran, vulnerabilities |-> vulnerabilities]

\* The trees of the code targets of a pipeline run, and what the dependency
\* check does there (dependency-check.sh is not installed, or reports CVSS
\* 9.8 and 4.0)
CodeRuns ==
    { [tree |-> << File(".py", TRUE, {"import os"}) >>, dependency |-> DependencyRun(FALSE, <<>>)],
      [tree |-> << File(".py", TRUE, {"os.system"}) >>, dependency |-> DependencyRun(FALSE, <<>>)],
      [tree |-> << File(".py", TRUE, {"md5"}) >>, dependency |-> DependencyRun(TRUE, <<98, 40>>)] }

\* What _run_code_security_checks can return for a code target: the pattern
\* categories found, and 'dependency' unless the dependency check raised.
CodeEntries ==
    { CodeEntry(_run_code_security_checks(r.tree, r.dependency)) : r \in CodeRuns }

\* config['security']['scan_targets'], by target type
TargetConfigs == { <<>>, <<"code">>, <<"web", "other", "code">> }

\* config['security']['critical_threshold'], in tenths
Thresholds == {0, 70}

\* One configured target together with what its adapter meets when it is
\* scanned: target['type'] and the scanner or tree behind target['url'] or
\* target['path'].
Target(type, run) == [type |-> type, run |-> run]
NoRun == [zap |-> ScannerRun("no_report", <<>>), nuclei |-> ScannerRun("no_report", <<>>)]

RECURSIVE Dispatch_prepend(_)
Dispatch_prepend(targets) ==
    IF targets = <<>>
    THEN ScanResult(<<>>, <<>>)
    ELSE LET r == Dispatch_prepend(SubSeq(targets, 1, Len(targets) - 1))
             target == targets[Len(targets)]
         IN  IF target.type = "web"
             THEN ScanResult(<<WebEntry(_run_web_security_checks(target.run.zap, target.run.nuclei))>>
                                \o r.web.items,
                             r.code.items)
             ELSE IF target.type = "code"
             THEN ScanResult(r.web.items,
                             <<CodeEntry(_run_code_security_checks(target.run.tree,
                                                                   target.run.dependency))>>
                                \o r.code.items)
             ELSE r

\* results = {"web": [], "code": []}; for target in scan_targets: the web or
\* the code adapter's result is appended to the matching list
RECURSIVE Dispatch(_)
Dispatch(targets) ==
    IF targets = <<>>
    THEN ScanResult(<<>>, <<>>)
    ELSE LET r == Dispatch(SubSeq(targets, 1, Len(targets) - 1))
             target == targets[Len(targets)]
         IN  IF target.type = "web"
             THEN ScanResult(Append(r.web.items,
                                    WebEntry(_run_web_security_checks(target.run.zap,
                                                                      target.run.nuclei))),
                             r.code.items)
             ELSE IF target.type = "code"
             THEN ScanResult(r.web.items,
                             Append(r.code.items,
                                    CodeEntry(_run_code_security_checks(target.run.tree,
                                                                        target.run.dependency))))
             ELSE r

\* The targets of the given types with everything their adapters may meet
RunsOf(type) ==
    IF type = "web" THEN WebRuns ELSE IF type = "code" THEN CodeRuns ELSE {NoRun}

RECURSIVE TargetsOf(_)
TargetsOf(types) ==
    IF types = <<>>
    THEN { <<>> }
    ELSE { Append(t, Target(types[Len(types)], r)) :
             t \in TargetsOf(SubSeq(types, 1, Len(types) - 1)),
             r \in RunsOf(types[Len(types)]) }

\* run_security_checks on targets of the given types: every result it can return
run_security_checks(types) == { Dispatch(t) : t \in TargetsOf(types) }

\* the same, tabulated for the configurations of the pipeline
Scans == [types \in TargetConfigs |-> run_security_checks(types)]

\* ----------------------------------------------------------------- cache
\* SecurityCache (cache.py): a durable map from scan id to the saved results.
LatestKey == [name |-> "latest_scan", t |-> 0]
ScanKey(t) == [name |-> "pipeline_scan", t |-> t]
CacheKeys == {LatestKey} \cup { ScanKey(t) : t \in 1..MaxRuns }

get_scan_results(c, key) == c[key]
save_scan_results(c, key, results) == [c EXCEPT ![key] = results]

\* What the cache directory may hold under a scan id when the pipeline is
\* constructed: a result saved by an earlier process, or a damaged entry.
StoredValues ==
    { ScanResult(<<>>, << Entry(FALSE, <<>>, TRUE, <<"HIGH", "low">>, FALSE, <<>>, {}) >>),
      Val("dict", ListGroup(<<>>), NoGroup, ""),          \* no 'code' key
      Val("dict", NonListGroup, ListGroup(<<>>), ""),     \* 'web' bound to a dict
      Val("dict", ListGroup(<<>>), NonListGroup, ""),     \* 'code' bound to null
      Val("str", NonListGroup, NonListGroup, "web code"), \* a string naming both keys
      Val("null", NoGroup, NoGroup, "") }

\* ----------------------------------------------------- pieces of the code
\* while fix_attempts < self.max_fix_attempts
LoopContinues_off_by_one(attempts, max) == attempts <= max
LoopContinues(attempts, max) == attempts < max

\* after the architecture review (taken or skipped) comes the severity analysis
AfterReview_rescan == "new_scan"
AfterReview == "analyze"

\* self.progress.update(20, "Running security checks"): the percent
\* reported by _run_new_scan, after the 10 and 15 of the cache lookup
RunningSecurityChecks == 20

\* return self.create_pull_request(): the run ends with the pull request
AfterPullRequest_back_to_loop == "loop"
AfterPullRequest == "done"

\* if fix_attempts < self.max_fix_attempts: create the pull request
FixesSucceeded_always(attempts, max) == attempts <= max
FixesSucceeded(attempts, max) == attempts < max

\* implement_fixes: one aider call per suggestion; success stays True only if
\* every call made a change and none ended in CalledProcessError
implement_fixes(outcomes) == \A i \in DOMAIN outcomes : outcomes[i] = "ok"

\* if self.implement_fixes(...): if self.validate_fixes(): break
ShouldValidate_never(success) == FALSE
ShouldValidate(success) == success

\* validate_fixes: False at the first entry at or above the threshold
validate_fixes(results, threshold) ==
    \A i \in DOMAIN AllEntries(results) :
        ~(_get_max_severity(AllEntries(results)[i]) >= threshold)

\* after validate_fixes: break, or fix_attempts += 1 and loop again
AfterValidate_no_break(valid, attempts) == [pc |-> "loop", fix_attempts |-> attempts + 1]
AfterValidate_no_count(valid, attempts) ==
    [pc |-> IF valid THEN "after_loop" ELSE "loop", fix_attempts |-> attempts]
AfterValidate(valid, attempts) ==
    IF valid THEN [pc |-> "after_loop", fix_attempts |-> attempts]
    ELSE [pc |-> "loop", fix_attempts |-> attempts + 1]

\* if not self.create_fix_branch(): finish, return False
AfterBranch_ignore_failure(created) == "loop"
AfterBranch(created) == IF created THEN "loop" ELSE "done"

\* if max_severity >= self.critical_threshold
IsCritical_inverted(severity, threshold) == severity <= threshold
IsCritical(severity, threshold) == severity >= threshold

\* _run_new_scan: if not getattr(self, '_skip_cache', False): save under scan_id
CacheAfterNewScan_never_saved(c, key, results, skip) == c
CacheAfterNewScan(c, key, results, skip) ==
    IF ~skip THEN save_scan_results(c, key, results) ELSE c

\* if cached_results and not getattr(self, '_skip_cache', False)
CacheHit_ignores_skip(entry, skip) == entry # NoValue
CacheHit(entry, skip) == entry # NoValue /\ ~skip

\* requests.post inside try/except Exception: the run goes on to the cache save
AfterPost_failure_fatal(outcome) == IF outcome = "raise" THEN "done" ELSE "save_latest"
AfterPost(outcome) == "save_latest"

\* except Exception as e: print(...); return False
ExceptHandler_reraise == RaisedV
ExceptHandler == FalseV

\* ------------------------------------------------------------- constructor
\* __init__(config_file): load_config, the threshold check, then the cache,
\* the prompt manager and the progress reporter.  config_file says whether
\* the file can be opened and what critical_threshold it holds (tenths).
ConfigFile(exists, threshold) == [exists |-> exists, critical_threshold |-> threshold]

__init___rejects_zero(config_file) ==
    IF ~config_file.exists
    THEN [raised |-> "FileNotFoundError", created |-> <<>>, critical_threshold |-> 0]
    ELSE IF config_file.critical_threshold <= 0
    THEN [raised |-> "ValueError", created |-> <<>>, critical_threshold |-> 0]
    ELSE [raised |-> "none",
          created |-> <<"SecurityCache", "PromptManager", "ProgressReporter">>,
          critical_threshold |-> config_file.critical_threshold]

__init__(config_file) ==
    IF ~config_file.exists
    THEN [raised |-> "FileNotFoundError", created |-> <<>>, critical_threshold |-> 0]
    ELSE IF config_file.critical_threshold < 0
    THEN [raised |-> "ValueError", created |-> <<>>, critical_threshold |-> 0]
    ELSE [raised |-> "none",
          created |-> <<"SecurityCache", "PromptManager", "ProgressReporter">>,
          critical_threshold |-> config_file.critical_threshold]

\* --------------------------------------------------------- HackerOne client
\* RateLimiter.__init__
RateLimiter(max_requests, time_window) ==
    [max_requests |-> max_requests, time_window |-> time_window, requests |-> <<>>]

\* No HackerOneAPI object has been created.
NoLimiter == RateLimiter(0, 0)

RECURSIVE Kept(_, _, _)
\* [req_time for req_time in self.requests if now - req_time <= self.time_window]
Kept(requests, t, time_window) ==
    IF requests = <<>> THEN <<>>
    ELSE LET rest == Kept(Tail(requests), t, time_window)
         IN  IF t - Head(requests) <= time_window THEN <<Head(requests)>> \o rest ELSE rest

\* RateLimiter.wait_if_needed called at time t: the limiter afterwards and the
\* time at which the call returns (t plus the time slept).
wait_if_needed(limiter, t) ==
    LET requests == Kept(limiter.requests, t, limiter.time_window)
        sleep_time == IF Len(requests) >= limiter.max_requests
                      THEN requests[1] + limiter.time_window - t
                      ELSE 0
    IN  [limiter |-> [limiter EXCEPT !.requests = Append(requests, t)],
         returns_at |-> IF sleep_time > 0 THEN t + sleep_time ELSE t]

\* The client's state as one value: clock, limiters, requests issued, and the
\* exception the last operation raised ("none": it returned).
Client(t, read, write, issued, raised) ==
    [clock |-> t, read_limiter |-> read, write_limiter |-> write, api |-> issued,
     raised |-> raised]

WriteMethods == {"POST", "PUT", "PATCH", "DELETE"}

\* _make_request: the limiter chosen by method, then requests.request; an
\* HTTP or connection error is logged and re-raised.
_make_request(h, method, outcome) ==
    LET write == method \in WriteMethods
        w == wait_if_needed(IF write THEN h.write_limiter ELSE h.read_limiter, h.clock)
    IN  Client(w.returns_at,
               IF write THEN h.read_limiter ELSE w.limiter,
               IF write THEN w.limiter ELSE h.write_limiter,
               Append(h.api, [method |-> method, at |-> w.returns_at]),
               IF outcome = "ok" THEN "none" ELSE "RequestException")

\* add_attachment: ValueError when the file does not exist, else one POST
add_attachment(h, file_path, outcome) ==
    IF file_path = "missing"
    THEN [h EXCEPT !.raised = "ValueError"]
    ELSE _make_request(h, "POST", outcome)

RECURSIVE Attach(_, _, _, _)
\* for file_path in attachments: self.add_attachment(report_id, file_path)
Attach(h, attachments, outcomes, i) ==
    IF i > Len(attachments) THEN h
    ELSE LET a == add_attachment(h, attachments[i], outcomes[i + 1])
         IN  IF a.raised # "none" THEN a ELSE Attach(a, attachments, outcomes, i + 1)

\* str.strip() on the strings of the model
Strip(s) ==
    CASE s = "  " -> ""
      [] s = " x " -> "x"
      [] OTHER -> s

\* not s or not s.strip()
Blank_no_strip(s) == s = ""
Blank(s) == s = "" \/ Strip(s) = ""

\* submit_report: the three required fields are validated, the report is
\* posted, then every attachment is added; outcomes[k] is the outcome of the
\* k-th request the call may issue.
submit_report(h, title, vulnerability_info, impact, attachments, outcomes) ==
    IF Blank(title) \/ Blank(vulnerability_info) \/ Blank(impact)
    THEN [h EXCEPT !.raised = "ValueError"]
    ELSE LET r == _make_request(h, "POST", outcomes[1])
         IN  IF r.raised # "none" THEN r ELSE Attach(r, attachments, outcomes, 1)

\* check_report_status: one GET
check_report_status(h, outcome) == _make_request(h, "GET", outcome)

\* ------------------------------------------------------ run_aider_command
\* for file in files: if not os.path.exists(file): raise RuntimeError
FilesExist_unchecked(files) == TRUE
FilesExist(files) == \A i \in DOMAIN files : files[i] = "exists"

\* What one call does: the exception it raises ("none": it returns), the
\* text of its message, whether the aider process was started and whether it
\* was killed.
AiderCall(raised, message, started, killed) ==
    [raised |-> raised, message |-> message, started |-> started, killed |-> killed]

\* run_aider_command: which says how shutil.which('aider') answers (at once,
\* after the installation, never, or the installation fails), files which of
\* the paths exist, run how the aider process ends.  Every exception but
\* TimeoutExpired is re-raised as RuntimeError(str(e)).
run_aider_command(which, files, run) ==
    CASE which = "install_fails" ->
           AiderCall("RuntimeError", "Command returned non-zero exit status", FALSE, FALSE)
      [] which = "never" ->
           AiderCall("RuntimeError", "Aider not found even after installation", FALSE, FALSE)
      [] OTHER ->
           IF ~FilesExist(files)
           THEN AiderCall("RuntimeError", "No such file or directory", FALSE, FALSE)
           ELSE CASE run = "oserror" ->
                       AiderCall("RuntimeError", "Permission denied", FALSE, FALSE)
                  [] run = "timeout" ->
                       AiderCall("TimeoutError", "Aider command timed out", TRUE, TRUE)
                  [] run = "nonzero" ->
                       AiderCall("RuntimeError", "Aider command failed", TRUE, FALSE)
                  [] OTHER -> AiderCall("none", "", TRUE, FALSE)

\* ------------------------------------------------------------------ state
VARIABLES
    critical_threshold,  \* self.critical_threshold (tenths)
    max_fix_attempts,    \* self.max_fix_attempts
    scan_targets,        \* config['security']['scan_targets'], by type
    cache,               \* the SecurityCache store: key -> saved results
    now,                 \* the clock second that names the scan id
    runs,                \* run_pipeline calls started so far
    pc,                  \* position of the current run_pipeline call
    skip_cache,          \* self._skip_cache
    scan_id,             \* the key ScanKey(now) of this run, once generated
    security_results,    \* run_pipeline's security_results
    results_from,        \* "none", "cache" or "scan": where they came from
    cached_used,         \* the cached value this run returned or used
    cached_rejected,     \* the cached value this run found invalid
    suggestions,         \* len(review_results['suggestions'])
    max_severity,        \* run_pipeline's max_severity (-1: not computed)
    fix_attempts,        \* run_pipeline's fix_attempts
    validated,           \* the results validate_fixes accepted (it returned True)
    ret,                 \* what run_pipeline returned (NoValue: running)
    log,                 \* the collaborator calls of this run, in order
    progress,            \* the ProgressReporter calls of this run
    call,                \* a direct call of one method: its name and arguments
    result,              \* what that call returned
    clock,               \* time.time() as seen by the HackerOne client
    read_limiter,        \* HackerOneAPI.read_limiter
    write_limiter,       \* HackerOneAPI.write_limiter
    api,                 \* the requests the client issued: method and time
    gui,                 \* the browser GUI: State, the coder and the chat loop
    monitor              \* the editor extension: session_state and the repository

config == <<critical_threshold, max_fix_attempts, scan_targets>>
vars == <<critical_threshold, max_fix_attempts, scan_targets, cache, now, runs, pc,
          skip_cache, scan_id, security_results, results_from, cached_used,
          cached_rejected, suggestions, max_severity, fix_attempts, validated, ret,
          log, progress, call, result, clock, read_limiter, write_limiter, api,
          gui, monitor>>

hackerone == <<clock, read_limiter, write_limiter, api>>
frontends == <<gui, monitor>>
pipeline == <<critical_threshold, max_fix_attempts, scan_targets, cache, now, runs, pc,
              skip_cache, scan_id, security_results, results_from, cached_used,
              cached_rejected, suggestions, max_severity, fix_attempts, validated, ret,
              log, progress>>

\* No method has been called directly.
NoCall == [fn |-> "none"]

Ev(op, out) == [op |-> op, out |-> out]
Logged(op, out) == Append(log, Ev(op, out))

\* ProgressReporter: start, update(percent, message), finish(message)
Started == [started |-> 1, finished |-> 0, percents |-> <<>>, message |-> ""]
Update(p, percent) == [p EXCEPT !.percents = Append(@, percent)]
Finish(p, message) == [p EXCEPT !.finished = @ + 1, !.message = message]

\* update(10, "Found cached results") and, when the cached entry fails
\* validation, update(15, "Cache validation failed, running new scan")
FoundCached_validation_first(p, valid) ==
    IF valid THEN Update(p, 10) ELSE Update(Update(p, 15), 10)

FoundCached(p, valid) ==
    IF valid THEN Update(p, 10) ELSE Update(Update(p, 10), 15)

\* The state after the constructor: the configuration is loaded, no run has
\* started, and the cache directory holds at most one entry from before.
Constructed(threshold, attempts, targets, stored) ==
    /\ critical_threshold = threshold
    /\ max_fix_attempts = attempts
    /\ scan_targets = targets
    /\ cache = [k \in CacheKeys |-> IF k = ScanKey(1) THEN stored ELSE NoValue]
    /\ now = 1
    /\ runs = 0
    /\ pc = "idle"
    /\ skip_cache = FALSE
    /\ scan_id = LatestKey
    /\ security_results = NoValue
    /\ results_from = "none"
    /\ cached_used = NoValue
    /\ cached_rejected = NoValue
    /\ suggestions = 0
    /\ max_severity = -1
    /\ fix_attempts = 0
    /\ validated = NoValue
    /\ ret = NoValue
    /\ log = <<>>
    /\ progress = [started |-> 0, finished |-> 0, percents |-> <<>>, message |-> ""]

\* The two front ends are separate programs: nothing here starts them.
NoGUI ==
    /\ gui = [pc |-> "none"]
    /\ monitor = [pc |-> "none"]

\* The HackerOne client is a separate script: the pipeline never creates one.
NoClient ==
    /\ clock = 0
    /\ read_limiter = NoLimiter
    /\ write_limiter = NoLimiter
    /\ api = <<>>

Init ==
    /\ \E threshold \in Thresholds, attempts \in 0..MaxFix, targets \in TargetConfigs,
          stored \in StoredValues \cup {NoValue} :
             Constructed(threshold, attempts, targets, stored)
    /\ call = NoCall
    /\ result = NoCall
    /\ NoClient
    /\ NoGUI

\* An exception reaches run_pipeline's own handler: the run returns at once.
Except(op) ==
    /\ ret' = ExceptHandler
    /\ pc' = "done"
    /\ log' = Logged(op, "raise")

\* run_pipeline is called (again): skip_cache is read, results is built,
\* progress.start is called.
StartRun ==
    /\ pc \in {"idle", "done"}
    /\ runs < MaxRuns
    /\ runs' = runs + 1
    /\ now' \in (IF runs = 0 THEN {now} ELSE {now, now + 1})
    /\ skip_cache' \in BOOLEAN
    /\ pc' = IF skip_cache' THEN "lookup" ELSE "latest"
    /\ scan_id' = LatestKey
    /\ security_results' = NoValue
    /\ results_from' = "none"
    /\ cached_used' = NoValue
    /\ cached_rejected' = NoValue
    /\ suggestions' = 0
    /\ max_severity' = -1
    /\ fix_attempts' = 0
    /\ validated' = NoValue
    /\ ret' = NoValue
    /\ log' = <<>>
    /\ progress' = Started
    /\ UNCHANGED <<call, result, hackerone, frontends, config, cache>>

\* cached_results = self.cache.get_scan_results("latest_scan");
\* if cached_results: return cached_results['results']
GetLatestScan ==
    /\ pc = "latest"
    /\ \E outcome \in {"ok", "raise"} :
          IF outcome = "raise"
          THEN Except("get_scan_results") /\ UNCHANGED cached_used
          ELSE LET entry == get_scan_results(cache, LatestKey)
               IN  IF entry # NoValue
                   THEN /\ ret' = entry
                        /\ cached_used' = entry
                        /\ pc' = "done"
                        /\ log' = Logged("get_scan_results", "latest_hit")
                   ELSE /\ pc' = "lookup"
                        /\ log' = Logged("get_scan_results", "latest_miss")
                        /\ UNCHANGED <<ret, cached_used>>
    /\ UNCHANGED <<call, result, hackerone, frontends, config, cache, now, runs, skip_cache, scan_id, security_results,
                   results_from, cached_rejected, suggestions, max_severity,
                   fix_attempts, validated, progress>>

\* scan_id = pipeline_scan_<now>; cached_results = get_scan_results(scan_id);
\* a hit (with skip_cache false) is used if _validate_cached_results accepts it
GetScanById ==
    /\ pc = "lookup"
    /\ scan_id' = ScanKey(now)
    /\ \E outcome \in {"ok", "raise"} :
          IF outcome = "raise"
          THEN /\ Except("get_scan_results")
               /\ UNCHANGED <<security_results, results_from, cached_used,
                              cached_rejected, progress>>
          ELSE LET entry == get_scan_results(cache, ScanKey(now))
               IN  IF CacheHit(entry, skip_cache)
                   THEN IF _validate_cached_results(entry)
                        THEN /\ security_results' = entry
                             /\ results_from' = "cache"
                             /\ cached_used' = entry
                             /\ progress' = FoundCached(progress, TRUE)
                             /\ pc' = "review"
                             /\ log' = Logged("get_scan_results", "hit")
                             /\ UNCHANGED <<ret, cached_rejected>>
                        ELSE /\ cached_rejected' = entry
                             /\ progress' = FoundCached(progress, FALSE)
                             /\ pc' = "new_scan"
                             /\ log' = Logged("get_scan_results", "invalid")
                             /\ UNCHANGED <<ret, security_results, results_from, cached_used>>
                   ELSE /\ pc' = "new_scan"
                        /\ log' = Logged("get_scan_results", "miss")
                        /\ UNCHANGED <<ret, security_results, results_from, cached_used,
                                       cached_rejected, progress>>
    /\ UNCHANGED <<call, result, hackerone, frontends, config, cache, now, runs, skip_cache, suggestions, max_severity,
                   fix_attempts, validated>>

\* _run_new_scan: progress 20, run_security_checks, save under scan_id
RunNewScan ==
    /\ pc = "new_scan"
    /\ progress' = Update(progress, RunningSecurityChecks)
    /\ \E fresh \in Scans[scan_targets], outcome \in {"ok", "raise"} :
          IF outcome = "raise" /\ ~skip_cache
          THEN /\ Except("save_scan_results")
               /\ UNCHANGED <<cache, security_results, results_from>>
          ELSE /\ cache' = CacheAfterNewScan(cache, scan_id, fresh, skip_cache)
               /\ security_results' = fresh
               /\ results_from' = "scan"
               /\ pc' = "review"
               /\ log' = Logged("run_security_checks", IF skip_cache THEN "unsaved" ELSE "saved")
               /\ UNCHANGED ret
    /\ UNCHANGED <<call, result, hackerone, frontends, config, now, runs, skip_cache, scan_id, cached_used, cached_rejected,
                   suggestions, max_severity, fix_attempts, validated>>

\* progress 40, run_architecture_review; CalledProcessError alone is caught
\* here and leaves an empty suggestion list
ArchitectureReview ==
    /\ pc = "review"
    /\ \E outcome \in {"ok", "CalledProcessError", "raise"} :
          CASE outcome = "ok" ->
                 /\ suggestions' \in 0..MaxSuggestions
                 /\ progress' = Update(progress, 40)
                 /\ pc' = AfterReview
                 /\ log' = Logged("run_architecture_review", "ok")
                 /\ UNCHANGED ret
            [] outcome = "CalledProcessError" ->
                 /\ suggestions' = 0
                 /\ progress' = Update(Update(progress, 40), 40)
                 /\ pc' = AfterReview
                 /\ log' = Logged("run_architecture_review", "CalledProcessError")
                 /\ UNCHANGED ret
            [] outcome = "raise" ->
                 /\ Except("run_architecture_review")
                 /\ progress' = Update(progress, 40)
                 /\ UNCHANGED suggestions
    /\ UNCHANGED <<call, result, hackerone, frontends, config, cache, now, runs, skip_cache, scan_id, security_results,
                   results_from, cached_used, cached_rejected, max_severity,
                   fix_attempts, validated>>

\* progress 60; max_severity = max(_get_max_severity(result) for every entry)
\* (ValueError when there is no entry); then the threshold check
AnalyzeSeverity ==
    /\ pc = "analyze"
    /\ LET entries == AllEntries(security_results)
           severity == SeqMax([i \in DOMAIN entries |-> _get_max_severity(entries[i])])
       IN  IF entries = <<>>
           THEN /\ Except("max")
                /\ progress' = Update(progress, 60)
                /\ UNCHANGED max_severity
           ELSE /\ max_severity' = severity
                /\ log' = Logged("max", "ok")
                /\ UNCHANGED ret
                /\ IF IsCritical(severity, critical_threshold)
                   THEN /\ progress' = Update(Update(progress, 60), 70)
                        /\ pc' = "branch"
                   ELSE /\ progress' = Finish(Update(progress, 60),
                                              "No critical vulnerabilities found")
                        /\ pc' = "notify"
    /\ UNCHANGED <<call, result, hackerone, frontends, config, cache, now, runs, skip_cache, scan_id, security_results,
                   results_from, cached_used, cached_rejected, suggestions,
                   fix_attempts, validated>>

\* create_fix_branch: git checkout -b; CalledProcessError gives False
CreateFixBranch ==
    /\ pc = "branch"
    /\ \E outcome \in {"ok", "CalledProcessError", "raise"} :
          IF outcome = "raise"
          THEN Except("create_fix_branch") /\ UNCHANGED progress
          ELSE /\ pc' = AfterBranch(outcome = "ok")
               /\ log' = Logged("create_fix_branch", outcome)
               /\ IF pc' = "done"
                  THEN /\ progress' = Finish(progress, "Failed to create fix branch")
                       /\ ret' = FalseV
                  ELSE UNCHANGED <<progress, ret>>
    /\ fix_attempts' = 0
    /\ UNCHANGED <<call, result, hackerone, frontends, config, cache, now, runs, skip_cache, scan_id, security_results,
                   results_from, cached_used, cached_rejected, suggestions,
                   max_severity, validated>>

\* one pass of the while loop up to implement_fixes' return
ImplementFixes ==
    /\ pc = "loop"
    /\ LoopContinues(fix_attempts, max_fix_attempts)
    /\ progress' = Update(progress, 80)
    /\ \E outcomes \in [1..suggestions -> {"ok", "no_change", "CalledProcessError", "raise"}] :
          IF \E i \in DOMAIN outcomes : outcomes[i] = "raise"
          THEN Except("implement_fixes") /\ UNCHANGED fix_attempts
          ELSE LET success == implement_fixes(outcomes)
               IN  /\ log' = Logged("implement_fixes", IF success THEN "True" ELSE "False")
                   /\ IF ShouldValidate(success)
                      THEN pc' = "validate" /\ UNCHANGED fix_attempts
                      ELSE pc' = "loop" /\ fix_attempts' = fix_attempts + 1
                   /\ UNCHANGED ret
    /\ UNCHANGED <<call, result, hackerone, frontends, config, cache, now, runs, skip_cache, scan_id, security_results,
                   results_from, cached_used, cached_rejected, suggestions,
                   max_severity, validated>>

\* validate_fixes: run_security_checks again and compare every entry with the
\* threshold; True breaks out of the loop
ValidateFixes ==
    /\ pc = "validate"
    /\ \E fresh \in Scans[scan_targets] :
          LET valid == validate_fixes(fresh, critical_threshold)
              after == AfterValidate(valid, fix_attempts)
          IN  /\ validated' = (IF valid THEN fresh ELSE NoValue)
              /\ log' = Logged("validate_fixes", IF valid THEN "True" ELSE "False")
              /\ pc' = after.pc
              /\ fix_attempts' = after.fix_attempts
    /\ UNCHANGED <<call, result, hackerone, frontends, config, cache, now, runs, skip_cache, scan_id, security_results,
                   results_from, cached_used, cached_rejected, suggestions,
                   max_severity, ret, progress>>

\* the while condition is false: the loop ends without a break
LoopExhausted ==
    /\ pc = "loop"
    /\ ~LoopContinues(fix_attempts, max_fix_attempts)
    /\ pc' = "after_loop"
    /\ UNCHANGED <<call, result, hackerone, frontends, config, cache, now, runs, skip_cache, scan_id, security_results,
                   results_from, cached_used, cached_rejected, suggestions,
                   max_severity, fix_attempts, validated, ret, log, progress>>

\* if fix_attempts < max_fix_attempts: go on to the pull request;
\* else: finish, return False
CheckFixOutcome ==
    /\ pc = "after_loop"
    /\ IF FixesSucceeded(fix_attempts, max_fix_attempts)
       THEN /\ progress' = Update(progress, 90)
            /\ pc' = "pr"
            /\ UNCHANGED ret
       ELSE /\ progress' = Finish(progress, "Max fix attempts reached without success")
            /\ ret' = FalseV
            /\ pc' = "done"
    /\ UNCHANGED <<call, result, hackerone, frontends, config, cache, now, runs, skip_cache, scan_id, security_results,
                   results_from, cached_used, cached_rejected, suggestions,
                   max_severity, fix_attempts, validated, log>>

\* create_pull_request: git diff, aider, gh pr create; CalledProcessError
\* gives False; run_pipeline returns what it returns
CreatePullRequest ==
    /\ pc = "pr"
    /\ \E outcome \in {"ok", "CalledProcessError", "raise"} :
          IF outcome = "raise"
          THEN Except("create_pull_request") /\ UNCHANGED progress
          ELSE /\ log' = Logged("create_pull_request", outcome)
               /\ progress' = Finish(progress, IF outcome = "ok"
                                               THEN "Pipeline completed successfully"
                                               ELSE "Failed to create PR")
               /\ ret' = IF outcome = "ok" THEN TrueV ELSE FalseV
               /\ pc' = AfterPullRequest
    /\ UNCHANGED <<call, result, hackerone, frontends, config, cache, now, runs, skip_cache, scan_id, security_results,
                   results_from, cached_used, cached_rejected, suggestions,
                   max_severity, fix_attempts, validated>>

\* if 'SLACK_WEBHOOK' in os.environ: requests.post, any exception caught
SendNotification ==
    /\ pc = "notify"
    /\ \E outcome \in {"no_webhook", "ok", "raise"} :
          /\ log' = Logged("post", outcome)
          /\ pc' = AfterPost(outcome)
    /\ UNCHANGED <<call, result, hackerone, frontends, config, cache, now, runs, skip_cache, scan_id, security_results,
                   results_from, cached_used, cached_rejected, suggestions,
                   max_severity, fix_attempts, validated, ret, progress>>

\* if not skip_cache: save {'results': results} under 'latest_scan';
\* return results
SaveLatestScan ==
    /\ pc = "save_latest"
    /\ \E outcome \in {"ok", "raise"} :
          IF outcome = "raise" /\ ~skip_cache
          THEN Except("save_scan_results") /\ UNCHANGED cache
          ELSE /\ cache' = IF ~skip_cache
                           THEN save_scan_results(cache, LatestKey, ResultsWrapper(PipelineResults))
                           ELSE cache
               /\ ret' = PipelineResults
               /\ pc' = "done"
               /\ log' = Logged("return", IF skip_cache THEN "unsaved" ELSE "saved")
    /\ UNCHANGED <<call, result, hackerone, frontends, config, now, runs, skip_cache, scan_id, security_results,
                   results_from, cached_used, cached_rejected, suggestions,
                   max_severity, fix_attempts, validated, progress>>

Next ==
    \/ StartRun
    \/ GetLatestScan
    \/ GetScanById
    \/ RunNewScan
    \/ ArchitectureReview
    \/ AnalyzeSeverity
    \/ CreateFixBranch
    \/ ImplementFixes
    \/ ValidateFixes
    \/ LoopExhausted
    \/ CheckFixOutcome
    \/ CreatePullRequest
    \/ SendNotification
    \/ SaveLatestScan

Spec == Init /\ [][Next]_vars

\* ------------------------------------------------------------- termination
\* A step of the run_pipeline call in progress.  The call runs in one thread
\* and every collaborator returns or raises, so a run that can take a step
\* takes it; when run_pipeline is called again is up to the caller.
RunStep ==
    \/ GetLatestScan
    \/ GetScanById
    \/ RunNewScan
    \/ ArchitectureReview
    \/ AnalyzeSeverity
    \/ CreateFixBranch
    \/ ImplementFixes
    \/ ValidateFixes
    \/ LoopExhausted
    \/ CheckFixOutcome
    \/ CreatePullRequest
    \/ SendNotification
    \/ SaveLatestScan

\* Pipelines with no target or one code target, on an empty cache, with every
\* threshold and every max_fix_attempts.
LiveInit ==
    /\ \E threshold \in Thresholds, attempts \in 0..MaxFix, targets \in {<<>>, <<"code">>} :
          Constructed(threshold, attempts, targets, NoValue)
    /\ call = NoCall
    /\ result = NoCall
    /\ NoClient
    /\ NoGUI

LiveSpec == LiveInit /\ [][Next]_vars /\ WF_vars(RunStep)

\* ------------------------------------------------- direct calls of methods
\* The scanning methods called on their own, on every input of bounded size.
BSeq(S, n) == UNION { [1..k -> S] : k \in 0..n }

Riskcodes == {-1, 0, 2, 3}
Labels == {"critical", "high", "medium", "low", "info", "CRITICAL", "unknown", "", "#"}
Scores == {-1, 40, 98}

SeverityInputs ==
    { Entry(TRUE, a, TRUE, f, FALSE, <<>>, {}) :
        a \in BSeq(Riskcodes, MaxFindings), f \in {<<>>, <<"critical">>} }
    \cup { Entry(FALSE, <<>>, TRUE, f, d, IF d THEN <<98>> ELSE <<>>, {}) :
        f \in BSeq(Labels, MaxFindings), d \in BOOLEAN }
    \cup { Entry(FALSE, <<>>, FALSE, <<>>, TRUE, v, p) :
        v \in BSeq(Scores, MaxFindings), p \in {{}, {"command_injection"}} }
    \cup { Entry(FALSE, <<>>, FALSE, <<>>, FALSE, <<>>, p) : p \in {{}, {"command_injection"}} }

Contents ==
    { {"import os"}, {"os.system"}, {"md5"}, {"eval("}, {"cursor.execute("},
      {"SELECT", "{", "}"}, {"DES"}, {"<script>"}, {"basic_auth"}, {"xmlparse"},
      {"../"}, {"pickle.loads"} }

Files ==
    { File(".py", TRUE, c) : c \in Contents }
    \cup { File(".js", FALSE, {"os.system"}), File(".txt", TRUE, {"os.system"}) }

DependencyRuns ==
    { DependencyRun(FALSE, <<>>), DependencyRun(TRUE, <<>>), DependencyRun(TRUE, <<98, 40>>) }

ZapRuns ==
    { ScannerRun("raise", <<>>), ScannerRun("no_report", <<>>) }
    \cup { ScannerRun("report", a) : a \in BSeq({0, 3}, MaxFindings) }

NucleiRuns ==
    { ScannerRun("raise", <<>>), ScannerRun("no_report", <<>>) }
    \cup { ScannerRun("report", f) : f \in BSeq({"critical", "low"}, 1) }

\* config.yml: missing, or holding a threshold below, at or above zero
ConfigFiles == { ConfigFile(e, t) : e \in BOOLEAN, t \in {-70, -1, 0, 1, 70} }

AdapterInit ==
    /\ Constructed(70, 0, <<>>, NoValue)
    /\ NoClient
    /\ NoGUI
    /\ result = NoCall
    /\ \/ \E e \in SeverityInputs : call = [fn |-> "_get_max_severity", result |-> e]
       \/ \E t \in BSeq(Files, MaxFiles), d \in DependencyRuns :
             call = [fn |-> "_run_code_security_checks", tree |-> t, dependency |-> d]
       \/ \E z \in ZapRuns, n \in NucleiRuns :
             call = [fn |-> "_run_web_security_checks", zap |-> z, nuclei |-> n]
       \/ \E y \in BSeq({"web", "code", "other"}, MaxTargets) :
             \E t \in TargetsOf(y) : call = [fn |-> "run_security_checks", targets |-> t]
       \/ \E c \in ConfigFiles : call = [fn |-> "__init__", config_file |-> c]
       \/ \E w \in {"found", "installed", "never", "install_fails"},
             f \in BSeq({"exists", "missing"}, MaxFiles),
             r \in {"ok", "nonzero", "timeout", "oserror"} :
             call = [fn |-> "run_aider_command", which |-> w, files |-> f, run |-> r]

Pending(fn) == call.fn = fn /\ result = NoCall
Returned(fn) == call.fn = fn /\ result # NoCall

GetMaxSeverity ==
    /\ Pending("_get_max_severity")
    /\ result' = [fn |-> call.fn, value |-> _get_max_severity(call.result)]
    /\ UNCHANGED <<call, hackerone, frontends, config, cache, now, runs, pc, skip_cache, scan_id,
                   security_results, results_from, cached_used, cached_rejected,
                   suggestions, max_severity, fix_attempts, validated, ret, log, progress>>

RunCodeSecurityChecks ==
    /\ Pending("_run_code_security_checks")
    /\ result' = [fn |-> call.fn,
                  value |-> _run_code_security_checks(call.tree, call.dependency)]
    /\ UNCHANGED <<call, hackerone, frontends, config, cache, now, runs, pc, skip_cache, scan_id,
                   security_results, results_from, cached_used, cached_rejected,
                   suggestions, max_severity, fix_attempts, validated, ret, log, progress>>

RunWebSecurityChecks ==
    /\ Pending("_run_web_security_checks")
    /\ result' = [fn |-> call.fn, value |-> _run_web_security_checks(call.zap, call.nuclei)]
    /\ UNCHANGED <<call, hackerone, frontends, config, cache, now, runs, pc, skip_cache, scan_id,
                   security_results, results_from, cached_used, cached_rejected,
                   suggestions, max_severity, fix_attempts, validated, ret, log, progress>>

RunSecurityChecks ==
    /\ Pending("run_security_checks")
    /\ result' = [fn |-> call.fn, value |-> Dispatch(call.targets)]
    /\ UNCHANGED <<call, hackerone, frontends, config, cache, now, runs, pc, skip_cache, scan_id,
                   security_results, results_from, cached_used, cached_rejected,
                   suggestions, max_severity, fix_attempts, validated, ret, log, progress>>

Construct ==
    /\ Pending("__init__")
    /\ result' = [fn |-> call.fn, value |-> __init__(call.config_file)]
    /\ UNCHANGED <<call, hackerone, frontends, config, cache, now, runs, pc, skip_cache, scan_id,
                   security_results, results_from, cached_used, cached_rejected,
                   suggestions, max_severity, fix_attempts, validated, ret, log, progress>>

RunAiderCommand ==
    /\ Pending("run_aider_command")
    /\ result' = [fn |-> call.fn,
                  value |-> run_aider_command(call.which, call.files, call.run)]
    /\ UNCHANGED <<call, pipeline, hackerone, frontends>>

AdapterNext ==
    \/ Construct
    \/ RunAiderCommand
    \/ GetMaxSeverity
    \/ RunCodeSecurityChecks
    \/ RunWebSecurityChecks
    \/ RunSecurityChecks

AdapterSpec == AdapterInit /\ [][AdapterNext]_vars

\* ------------------------------------------------- the HackerOne client
\* A HackerOneAPI object and the calls made on it as time passes.  The limits
\* of the code (600 per 60 s, 25 per 20 s) are scaled down to small values;
\* the read limiter has the longest window, as in the code.
LimiterSizes == 1..MaxRequests
Windows == 1..MaxWindow
Outcomes == {"ok", "raise"}

\* title, vulnerability_info and impact of a report: all three filled in, one
\* of them empty or whitespace-only, or all three empty
Reports ==
    { <<"x", " x ", "x">>, <<"", "", "">> }
      \cup { [f \in 1..3 |-> IF f = k THEN b ELSE "x"] : k \in 1..3, b \in {"", "  "} }

\* the attachments argument: none, or paths of files that exist or do not
AttachmentLists == { <<>>, <<"exists">>, <<"missing">>, <<"exists", "exists">> }

\* the outcomes of the n requests a call may issue: all succeed or one fails
\* (what follows a failed request is never issued)
OutcomeSeqs(n) == { [k \in 1..n |-> IF k = f THEN "raise" ELSE "ok"] : f \in 0..n }

HackerOneInit ==
    /\ Constructed(70, 0, <<>>, NoValue)
    /\ call = [fn |-> "HackerOneAPI", n |-> 0]
    /\ result = NoCall
    /\ clock = 0
    /\ \E m \in LimiterSizes : read_limiter = RateLimiter(m, MaxWindow)
    /\ \E m \in LimiterSizes, w \in Windows : write_limiter = RateLimiter(m, w)
    /\ api = <<>>
    /\ NoGUI

TheClient == Client(clock, read_limiter, write_limiter, api, "none")

\* the client after an operation
Becomes(h) ==
    /\ clock' = h.clock
    /\ read_limiter' = h.read_limiter
    /\ write_limiter' = h.write_limiter
    /\ api' = h.api
    /\ result' = [fn |-> call'.fn, value |-> h.raised]

\* time passes between two calls
Tick ==
    /\ clock < MaxClock
    /\ clock' = clock + 1
    /\ UNCHANGED <<call, result, read_limiter, write_limiter, api, pipeline, frontends>>

SubmitReport ==
    /\ call.n < MaxCalls
    /\ clock <= MaxClock
    /\ \E report \in Reports, attachments \in AttachmentLists :
          \E outcomes \in OutcomeSeqs(Len(attachments) + 1) :
             /\ call' = [fn |-> "submit_report", n |-> call.n + 1, title |-> report[1],
                          vulnerability_info |-> report[2], impact |-> report[3],
                          attachments |-> attachments]
             /\ Becomes(submit_report(TheClient, report[1], report[2], report[3],
                                       attachments, outcomes))
    /\ UNCHANGED <<pipeline, frontends>>

AddAttachment ==
    /\ call.n < MaxCalls
    /\ clock <= MaxClock
    /\ \E file_path \in {"exists", "missing"}, outcome \in Outcomes :
          /\ call' = [fn |-> "add_attachment", n |-> call.n + 1, file_path |-> file_path]
          /\ Becomes(add_attachment(TheClient, file_path, outcome))
    /\ UNCHANGED <<pipeline, frontends>>

CheckReportStatus ==
    /\ call.n < MaxCalls
    /\ clock <= MaxClock
    /\ \E outcome \in Outcomes :
          /\ call' = [fn |-> "check_report_status", n |-> call.n + 1]
          /\ Becomes(check_report_status(TheClient, outcome))
    /\ UNCHANGED <<pipeline, frontends>>

HackerOneNext ==
    \/ Tick
    \/ SubmitReport
    \/ AddAttachment
    \/ CheckReportStatus

HackerOneSpec == HackerOneInit /\ [][HackerOneNext]_vars

\* ------------------------------------------------------------ the browser GUI
\* gui/app.py.  Python's None is the string "None"; a prompt, a reflected
\* message and a reply are strings, and `while prompt` / `if reply` test
\* their truth.
None == "None"
Truthy(s) == s \notin {None, ""}

\* the State attributes the handlers below read or write
StateKeys == {"last_aider_commit_hash", "last_undone_commit_hash", "prompt",
              "current_model"}

\* State(): no key recorded, no attribute set
State == [keys |-> {}, attrs |-> [k \in StateKeys |-> None]]

\* State.init(key, val): a key that is already recorded is left alone
init(state, key, val) ==
    IF key \in state.keys
    THEN state
    ELSE [keys |-> state.keys \cup {key}, attrs |-> [state.attrs EXCEPT ![key] = val]]

\* a coder as get_coder returns it
Coder(main_model, hash, reflected) ==
    [main_model |-> main_model, last_aider_commit_hash |-> hash,
     reflected_message |-> reflected]

\* GUI.initialize_state: every attribute goes through State.init
initialize_state(state, coder) ==
    LET s1 == init(state, "last_aider_commit_hash", coder.last_aider_commit_hash)
        s2 == init(s1, "last_undone_commit_hash", None)
        s3 == init(s2, "prompt", None)
    IN  init(s3, "current_model", coder.main_model)

\* the models of the two select boxes, and a model configured outside the GUI
OpenAIModels == {"gpt-4"}
AnthropicModels == {"claude-3-opus-20240229"}
Models == OpenAIModels \cup AnthropicModels \cup {"default"}
Providers == {"OpenAI", "Anthropic"}
ModelsOf(provider) == IF provider = "OpenAI" THEN OpenAIModels ELSE AnthropicModels

\* get_coder after the cache was cleared: a coder for the selected model when
\* aider knows the name (a 'claude-' name always passes), else the coder
\* main.main builds from the configuration
get_coder(selected_model, known, configured) ==
    IF selected_model # None /\ (known \/ selected_model \in AnthropicModels)
    THEN Coder(selected_model, None, None)
    ELSE Coder(configured, None, None)

\* commit hashes, prompts, and what the coder leaves in reflected_message
Hashes == {"a1", "b2"}
Prompts == {"hi"}
Reflections == {None, "", "fix"}
Replies == {None, "undo reply"}

\* self.max_reflections = 3
max_reflections == 3

\* if self.num_reflections < self.max_reflections
MayReflect_once_more(num_reflections) == num_reflections <= max_reflections
MayReflect(num_reflections) == num_reflections < max_reflections

\* do_undo's check: the hash is the latest commit of both the state and the coder
IsLatestCommit_of_either(state_hash, coder_hash, commit_hash) ==
    state_hash = commit_hash \/ coder_hash = commit_hash

IsLatestCommit(state_hash, coder_hash, commit_hash) ==
    ~(state_hash # commit_hash \/ coder_hash # commit_hash)

\* GUI(): get_coder, get_state, initialize_state; nothing is pending
GUI(coder) ==
    [pc |-> "ready",
     state |-> initialize_state(State, coder),
     coder |-> coder,
     selected_model |-> None,
     prompt |-> None,
     num_reflections |-> 0,
     runs |-> 0,
     last |-> [fn |-> "__init__"],
     message |-> "How can I help you?"]

GuiInit ==
    /\ Constructed(70, 0, <<>>, NoValue)
    /\ call = NoCall
    /\ result = NoCall
    /\ NoClient
    /\ monitor = [pc |-> "none"]
    /\ \E main_model \in Models : gui = GUI(Coder(main_model, None, None))

prompt_pending == gui.state.attrs["prompt"] # None

\* the 'Switch Model' button of do_model_settings: the API key check, the
\* cache is cleared and a coder is created, State.init, the messages, rerun
SwitchModel ==
    /\ gui.pc = "ready"
    /\ \E provider \in Providers :
        \E model \in ModelsOf(provider) :
          \/ gui' = [gui EXCEPT
                        !.last = [fn |-> "do_model_settings", model |-> model,
                                  out |-> "ValueError"],
                        !.message = "Invalid model selection"]
          \/ gui' = [gui EXCEPT
                        !.selected_model = model,
                        !.last = [fn |-> "do_model_settings", model |-> model,
                                  out |-> "Exception"],
                        !.message = "Unexpected error switching model"]
          \/ \E known \in BOOLEAN :
                gui' = [gui EXCEPT
                          !.selected_model = model,
                          !.coder = get_coder(model, known, "default"),
                          !.state = init(gui.state, "current_model", model),
                          !.last = [fn |-> "do_model_settings", model |-> model,
                                    out |-> "ok"],
                          !.message = "Model switched"]
    /\ UNCHANGED <<pipeline, call, result, hackerone, monitor>>

\* GUI.__init__ with a chat input: self.state.prompt = self.prompt, rerun
Submit ==
    /\ gui.pc = "ready"
    /\ ~prompt_pending
    /\ \E p \in Prompts :
          gui' = [gui EXCEPT !.state.attrs["prompt"] = p,
                             !.last = [fn |-> "chat_input", prompt |-> p],
                             !.message = p]
    /\ UNCHANGED <<pipeline, call, result, hackerone, monitor>>

\* process_chat up to its loop: the prompt is taken and cleared
ProcessChat ==
    /\ gui.pc = "ready"
    /\ prompt_pending
    /\ gui' = [gui EXCEPT !.pc = "loop",
                          !.prompt = gui.state.attrs["prompt"],
                          !.state.attrs["prompt"] = None,
                          !.num_reflections = 0,
                          !.runs = 0,
                          !.last = [fn |-> "process_chat"]]
    /\ UNCHANGED <<pipeline, call, result, hackerone, monitor>>

\* one pass of `while prompt`: coder.run_stream, which may commit and may
\* leave a reflected message, then the reflection check
RunStream ==
    /\ gui.pc = "loop"
    /\ Truthy(gui.prompt)
    /\ \/ gui' = [gui EXCEPT !.pc = "ready",
                              !.runs = @ + 1,
                              !.prompt = None,
                              !.message = "Error running GUI"]
       \/ \E reflected \in Reflections,
             hash \in Hashes \cup {gui.coder.last_aider_commit_hash} :
             gui' = [gui EXCEPT
                       !.runs = @ + 1,
                       !.coder = Coder(gui.coder.main_model, hash, reflected),
                       !.message = "assistant",
                       !.num_reflections =
                           IF Truthy(reflected) /\ MayReflect(gui.num_reflections)
                           THEN @ + 1 ELSE @,
                       !.prompt =
                           IF Truthy(reflected) /\ MayReflect(gui.num_reflections)
                           THEN reflected ELSE None]
    /\ UNCHANGED <<pipeline, call, result, hackerone, monitor>>

\* after the loop: the edit message, the commit hash is taken over, rerun
FinishChat ==
    /\ gui.pc = "loop"
    /\ ~Truthy(gui.prompt)
    /\ gui' = [gui EXCEPT !.pc = "ready",
                          !.state.attrs["last_aider_commit_hash"] =
                              gui.coder.last_aider_commit_hash,
                          !.message = "edit"]
    /\ UNCHANGED <<pipeline, call, result, hackerone, monitor>>

\* add_undo's button and do_undo(commit_hash); a reply of cmd_undo becomes
\* the next prompt
DoUndo ==
    /\ gui.pc = "ready"
    /\ ~prompt_pending
    /\ \E commit_hash \in Hashes :
          /\ gui.state.attrs["last_undone_commit_hash"] # commit_hash
          /\ IF ~IsLatestCommit(gui.state.attrs["last_aider_commit_hash"],
                                gui.coder.last_aider_commit_hash, commit_hash)
             THEN gui' = [gui EXCEPT
                            !.last = [fn |-> "do_undo", commit_hash |-> commit_hash,
                                      cmd_undo |-> FALSE],
                            !.message = "not the latest commit"]
             ELSE \/ gui' = [gui EXCEPT
                               !.last = [fn |-> "do_undo", commit_hash |-> commit_hash,
                                         cmd_undo |-> TRUE],
                               !.message = "Error running GUI"]
                  \/ \E reply \in Replies,
                        after \in {gui.coder.last_aider_commit_hash, None} :
                        gui' = [gui EXCEPT
                                  !.coder.last_aider_commit_hash = after,
                                  !.state.attrs["last_undone_commit_hash"] = commit_hash,
                                  !.state.attrs["prompt"] =
                                      IF Truthy(reply) THEN reply ELSE None,
                                  !.last = [fn |-> "do_undo", commit_hash |-> commit_hash,
                                            cmd_undo |-> TRUE],
                                  !.message = "undo"]
    /\ UNCHANGED <<pipeline, call, result, hackerone, monitor>>

GuiNext ==
    \/ SwitchModel
    \/ Submit
    \/ ProcessChat
    \/ RunStream
    \/ FinishChat
    \/ DoUndo

GuiSpec == GuiInit /\ [][GuiNext]_vars

\* every run_stream call returns or raises, and the code after it runs
GuiLiveSpec == GuiInit /\ [][GuiNext]_vars /\ WF_vars(RunStream \/ FinishChat)

\* ------------------------------------------------------- the editor extension
\* vs-extension/aider-vscode/src/python/app.py.  The repository is what the
\* git handler reads: the branch, the status and the last three commits.
Branches == {"main", "fix"}
Statuses == {"clean", "dirty"}
CommitLists == {<<"c1">>, <<"c2", "c1">>}
Repos == [branch : Branches, status : Statuses, commits : CommitLists]

\* what the three reads of one call return
Reading(branch, status, commits) ==
    [branch |-> branch, status |-> status, commits |-> commits]

\* branch_changed or status_changed or commits_changed
Changed_branch_only(current, previous) ==
    current.branch # previous.branch

Changed(current, previous) ==
    \/ current.branch # previous.branch
    \/ current.status # previous.status
    \/ current.commits # previous.commits

\* monitor_git_changes on a session_state holding `previous`: the snapshot
\* afterwards and the value returned
monitor_git_changes(current, previous) ==
    IF Changed(current, previous)
    THEN [previous |-> current, returned |-> TRUE]
    ELSE [previous |-> previous, returned |-> FALSE]

\* GUI.__init__ / initialize_state: an empty session takes its snapshot from
\* the repository.  since counts the calls completed since the repository
\* last changed; torn says it changed between the reads of the running call.
Monitor(repo) ==
    [pc |-> "ready", repo |-> repo,
     previous |-> Reading(repo.branch, repo.status, repo.commits),
     current |-> Reading(repo.branch, repo.status, repo.commits),
     returned |-> FALSE, since |-> 0, torn |-> FALSE]

MonitorInit ==
    /\ Constructed(70, 0, <<>>, NoValue)
    /\ call = NoCall
    /\ result = NoCall
    /\ NoClient
    /\ gui = [pc |-> "none"]
    /\ \E repo \in Repos : monitor = Monitor(repo)

\* somebody checks out a branch, edits a file or commits, at any moment
RepoChange ==
    /\ monitor.pc # "none"
    /\ \E repo \in Repos \ {monitor.repo} :
          monitor' = [monitor EXCEPT !.repo = repo, !.since = 0,
                                     !.torn = (monitor.pc # "ready")]
    /\ UNCHANGED <<pipeline, call, result, hackerone, gui>>

\* monitor_git_changes: current_branch = self.coder.get_current_branch()
GetCurrentBranch ==
    /\ monitor.pc = "ready"
    /\ monitor' = [monitor EXCEPT !.pc = "status",
                                  !.current.branch = monitor.repo.branch,
                                  !.torn = FALSE]
    /\ UNCHANGED <<pipeline, call, result, hackerone, gui>>

\* current_status = self.coder.get_status()
GetStatus ==
    /\ monitor.pc = "status"
    /\ monitor' = [monitor EXCEPT !.pc = "commits",
                                  !.current.status = monitor.repo.status]
    /\ UNCHANGED <<pipeline, call, result, hackerone, gui>>

\* current_commits = self.coder.get_recent_commits(3), the comparison with
\* the snapshot, the update of the snapshot and the return
GetRecentCommits ==
    /\ monitor.pc = "commits"
    /\ LET current == Reading(monitor.current.branch, monitor.current.status,
                              monitor.repo.commits)
           after == monitor_git_changes(current, monitor.previous)
       IN  monitor' = [monitor EXCEPT
                         !.pc = "ready",
                         !.current = current,
                         !.previous = after.previous,
                         !.returned = after.returned,
                         !.since = IF monitor.torn THEN 0
                                   ELSE IF @ < 2 THEN @ + 1 ELSE @]
    /\ UNCHANGED <<pipeline, call, result, hackerone, gui>>

MonitorNext ==
    \/ RepoChange
    \/ GetCurrentBranch
    \/ GetStatus
    \/ GetRecentCommits

MonitorSpec == MonitorInit /\ [][MonitorNext]_vars

\* ----------------------------------------------------------------- claims
Count(op) == Cardinality({ i \in DOMAIN log : log[i].op = op })
Has(op, out) == \E i \in DOMAIN log : log[i] = Ev(op, out)
AttemptsUpTo(i) == Cardinality({ j \in 1..i : log[j].op = "implement_fixes" })

\* The remediation loop was entered and no validation found the severity
\* below the threshold.
NeverValidated ==
    /\ pc = "done"
    /\ max_severity >= critical_threshold
    /\ Has("create_fix_branch", "ok")
    /\ ~Has("validate_fixes", "True")

C2_StopAtFirstSuccess ==
    \A i \in DOMAIN log :
        log[i] = Ev("validate_fixes", "True") =>
            /\ AttemptsUpTo(i) = fix_attempts + 1
            /\ AttemptsUpTo(i) >= 1
            /\ AttemptsUpTo(i) <= max_fix_attempts
            /\ Count("implement_fixes") = AttemptsUpTo(i)
            /\ \A j \in 1..(i - 1) : log[j] # Ev("validate_fixes", "True")
            /\ \A j \in DOMAIN log : j > i => log[j].op = "create_pull_request"
            /\ pc \in {"after_loop", "pr", "done"}
            /\ pc = "done" => Count("create_pull_request") = 1

C2_Witness ==
    /\ pc = "done"
    /\ max_fix_attempts = 3
    /\ Count("implement_fixes") = 2
    /\ Count("validate_fixes") = 2
    /\ Has("validate_fixes", "False")
    /\ Has("validate_fixes", "True")
    /\ Has("create_pull_request", "ok")
    /\ ret = TrueV

\* The loop is over, or the run has ended.
LoopLeft == pc \in {"after_loop", "pr", "done"}

\* C3 as claimed: every implement_fixes call, whatever it returns, is followed
\* by validate_fixes before the next attempt starts or the loop ends.
C3_EveryAttemptValidated_AsClaimed ==
    \A i \in DOMAIN log :
        (log[i].op = "implement_fixes" /\ log[i].out \in {"True", "False"}) =>
            /\ i < Len(log) => log[i + 1].op = "validate_fixes"
            /\ i = Len(log) => ~LoopLeft

\* C3 amended: every implement_fixes call that returns True is followed by
\* validate_fixes before the next attempt starts or the loop ends; a call that
\* returns False is counted as an attempt and is not validated.
C3_SuccessfulAttemptValidated ==
    \A i \in DOMAIN log :
        /\ log[i] = Ev("implement_fixes", "True") =>
              /\ i < Len(log) => log[i + 1].op = "validate_fixes"
              /\ i = Len(log) => pc = "validate"
        /\ log[i] = Ev("implement_fixes", "False") =>
              /\ i < Len(log) => log[i + 1].op = "implement_fixes"
              /\ i = Len(log) => pc # "validate"
        /\ log[i].op = "validate_fixes" =>
              /\ i > 1
              /\ log[i - 1] = Ev("implement_fixes", "True")

C3_Witness ==
    \E i \in DOMAIN log :
        /\ i + 2 <= Len(log)
        /\ log[i] = Ev("implement_fixes", "True")
        /\ log[i + 1] = Ev("validate_fixes", "False")
        /\ log[i + 2].op = "implement_fixes"

\* C4: create_pull_request is called only after create_fix_branch succeeded
\* and a validate_fixes of the same run found every result entry below the
\* threshold; never when the attempts are exhausted (max_fix_attempts = 0
\* included) nor when the severity was below the threshold at the first check.
C4_PullRequestOnlyAfterValidation ==
    Count("create_pull_request") > 0 =>
        /\ Has("create_fix_branch", "ok")
        /\ Has("validate_fixes", "True")
        /\ validated # NoValue
        /\ \A i \in DOMAIN AllEntries(validated) :
              _get_max_severity(AllEntries(validated)[i]) < critical_threshold
        /\ fix_attempts < max_fix_attempts
        /\ max_fix_attempts > 0
        /\ max_severity >= critical_threshold
        /\ progress.message # "Max fix attempts reached without success"
        /\ progress.message # "No critical vulnerabilities found"

C4_Witness ==
    /\ pc = "done"
    /\ Has("create_pull_request", "ok")
    /\ AllEntries(validated) # <<>>
    /\ ret = TrueV

\* C5: if create_fix_branch fails, the run returns False and calls neither
\* implement_fixes nor validate_fixes nor create_pull_request.
C5_BranchFailureAborts ==
    (Has("create_fix_branch", "CalledProcessError") \/ Has("create_fix_branch", "raise")) =>
        /\ pc = "done"
        /\ ret = FalseV
        /\ Count("implement_fixes") = 0
        /\ Count("validate_fixes") = 0
        /\ Count("create_pull_request") = 0

C5_Witness ==
    /\ Has("create_fix_branch", "CalledProcessError")
    /\ max_fix_attempts > 0
    /\ ret = FalseV
    /\ progress.message = "Failed to create fix branch"

\* The aggregate max severity of a scan result as the specification defines
\* it: the maximum over every result entry of both groups, 0.0 for none.
AggregateSeverity(results) ==
    LET entries == AllEntries(results)
    IN  IF entries = <<>> THEN 0
        ELSE SeqMax([i \in DOMAIN entries |-> _get_max_severity(entries[i])])

\* C6 as claimed: once the run has its scan result and reaches the severity
\* analysis, create_fix_branch is called if and only if the aggregate max
\* severity is at or above critical_threshold; when it is below, the run ends
\* with 'No critical vulnerabilities found' and without branch, fix or pull
\* request.
C6_RemediationIffCritical_AsClaimed ==
    (pc = "done" /\ Count("max") > 0) =>
        /\ Count("create_fix_branch") > 0
              <=> AggregateSeverity(security_results) >= critical_threshold
        /\ AggregateSeverity(security_results) < critical_threshold =>
              /\ progress.message = "No critical vulnerabilities found"
              /\ Count("create_fix_branch") = 0
              /\ Count("implement_fixes") = 0
              /\ Count("create_pull_request") = 0

\* C7 as claimed: whatever step raises, the run returns False.
C7_AnyFailureReturnsFalse_AsClaimed ==
    (pc = "done" /\ \E i \in DOMAIN log : log[i].out = "raise") => ret = FalseV

\* C7 amended: run_pipeline never propagates an exception; an exception that
\* leaves a step (it is not caught inside the step, as the one of the
\* notification post is) ends the run at once with the result False; after a
\* failed notification post the run goes on and returns its results (False
\* only if the cache save that follows raises).
C7_NoExceptionPropagates ==
    /\ ret.t # "exception"
    /\ pc = "done" => ret # NoValue
    /\ \A i \in DOMAIN log :
          (log[i].out = "raise" /\ log[i].op # "post") =>
              /\ i = Len(log)
              /\ pc = "done"
              /\ ret = FalseV
    /\ \A i \in DOMAIN log :
          log[i] = Ev("post", "raise") => (pc = "done" => ret \in {PipelineResults, FalseV})

C7_Witness ==
    /\ pc = "done"
    /\ \/ Has("run_architecture_review", "raise")
       \/ Has("implement_fixes", "raise")
       \/ Has("create_pull_request", "raise")
    /\ ret = FalseV

\* C8 as claimed: with skip_cache false, a cached result is returned or used in
\* place of a scan only if it passes _validate_cached_results, under any key.
C8_CachedResultValidated_AsClaimed ==
    cached_used # NoValue => _validate_cached_results(cached_used)

\* Both keys present and both bound to lists.
WellFormed(v) ==
    /\ v.t = "dict"
    /\ v.web.present /\ v.web.islist
    /\ v.code.present /\ v.code.islist

\* C9: _validate_cached_results accepts the entry found under the scan id
\* exactly when it is a structure with both 'web' and 'code' bound to lists;
\* an entry it rejects is discarded and run_security_checks is run instead.
C9_ValidationExact ==
    /\ Has("get_scan_results", "hit") =>
          /\ WellFormed(cached_used)
          /\ results_from = "cache"
          /\ security_results = cached_used
          /\ Count("run_security_checks") = 0
    /\ Has("get_scan_results", "invalid") =>
          /\ cached_rejected # NoValue
          /\ ~WellFormed(cached_rejected)
          /\ results_from # "cache"
          /\ pc \in {"review", "analyze", "branch", "loop", "validate", "after_loop",
                     "pr", "notify", "save_latest"}
                => (results_from = "scan" /\ Count("run_security_checks") = 1)

C9_Witness ==
    /\ Has("get_scan_results", "invalid")
    /\ cached_rejected.t = "dict"
    /\ cached_rejected.web.present /\ ~cached_rejected.web.islist
    /\ results_from = "scan"
    /\ pc = "analyze"

SetMax(S) == IF S = {} THEN 0 ELSE CHOOSE m \in S : \A x \in S : x <= m

\* The severities of the well-formed findings of the group _get_max_severity
\* reads for a result entry.
WellFormedSeverities(e) ==
    IF e.has_zap
    THEN { e.alerts[i] * 10 : i \in { j \in DOMAIN e.alerts : e.alerts[j] >= 0 } }
    ELSE IF e.has_nuclei
    THEN { severity_map(e.findings[i]) : i \in { j \in DOMAIN e.findings : e.findings[j] # "#" } }
    ELSE IF e.has_dependency
    THEN { e.vulnerabilities[i] : i \in { j \in DOMAIN e.vulnerabilities : e.vulnerabilities[j] >= 0 } }
    ELSE {}

\* C11 as claimed: _get_max_severity returns the maximum over the well-formed
\* findings of the result; a malformed finding contributes 0.0 and leaves the
\* others counted.
C11_MalformedEntryContributesZero_AsClaimed ==
    Returned("_get_max_severity") =>
        result.value = SetMax(WellFormedSeverities(call.result))

\* The table of the specification, labels compared without regard to case.
LabelTable(label) ==
    CASE label \in {"critical", "CRITICAL"} -> 90
      [] label = "high" -> 70
      [] label = "medium" -> 50
      [] label = "low" -> 30
      [] label = "info" -> 0
      [] OTHER -> 0

\* A result entry whose severity comes from labelled findings, all of them
\* dicts.
LabelGroup(e) ==
    /\ ~e.has_zap
    /\ e.has_nuclei
    /\ \A i \in DOMAIN e.findings : e.findings[i] # "#"

HasHighPatternFinding(results) ==
    \E i \in DOMAIN results.code.items :
        \E t \in results.code.items[i].patterns : PatternSeverity(t) = "high"

\* C13 as claimed: when a code target has a pattern finding of severity 'high'
\* the aggregate compared with critical_threshold is at least 7.0, so with a
\* threshold of 7.0 the run enters remediation.
C13_PatternFindingsCount_AsClaimed ==
    (Count("max") > 0 /\ HasHighPatternFinding(security_results)) =>
        /\ max_severity >= 70
        /\ critical_threshold = 70 =>
              /\ progress.message # "No critical vulnerabilities found"
              /\ pc \notin {"notify", "save_latest"}

\* C14 as claimed: a scan result without any entry has aggregate severity 0.0;
\* the run does not fail there and, the threshold being above 0, ends on the
\* no-critical-vulnerabilities path.
C14_EmptyResultIsZero_AsClaimed ==
    (Count("max") > 0 /\ AllEntries(security_results) = <<>>) =>
        /\ Has("max", "ok")
        /\ max_severity = 0
        /\ critical_threshold > 0 =>
              /\ progress.message = "No critical vulnerabilities found"
              /\ Count("create_fix_branch") = 0

\* The run scanned its single code target, none of whose files matches a
\* pattern, with a threshold of 7.0.
CleanCodeTarget ==
    /\ critical_threshold = 70
    /\ scan_targets = <<"code">>
    /\ results_from = "scan"
    /\ \A i \in DOMAIN security_results.code.items :
          security_results.code.items[i].patterns = {}

C16_ReviewFailureTolerated_AsClaimed ==
    \A i \in DOMAIN log :
        (log[i].op = "run_architecture_review" /\ log[i].out # "ok") =>
            /\ suggestions = 0
            /\ i = Len(log) => pc = "analyze"
            /\ i < Len(log) => log[i + 1].op = "max"

\* The categories the file at position i of the tree matches.
Expected(file) == { t \in { VulnTypes[k] : k \in DOMAIN VulnTypes } : Matches(t, file.content) }

\* C17 as claimed: an unreadable file is skipped; every readable source file of
\* the tree is scanned and its findings are in the result.
C17_UnreadableFileSkipped_AsClaimed ==
    Returned("_run_code_security_checks") =>
        \A i \in DOMAIN call.tree :
            (call.tree[i].ext \in ScannedExtensions /\ call.tree[i].readable) =>
                \A t \in Expected(call.tree[i]) :
                    \E k \in DOMAIN result.value.findings :
                        /\ result.value.findings[k].file = i
                        /\ result.value.findings[k].type = t

\* C18 as claimed: a finding is 'high' for command_injection and
\* insecure_deserialization and 'medium' for every other category.
C18_PatternSeverityTiers_AsClaimed ==
    Returned("_run_code_security_checks") =>
        \A k \in DOMAIN result.value.findings :
            result.value.findings[k].severity =
                IF result.value.findings[k].type
                      \in {"command_injection", "insecure_deserialization"}
                THEN "high" ELSE "medium"

\* C18 amended: a finding is 'high' for sql_injection, command_injection and
\* insecure_deserialization and 'medium' for every other category (xss,
\* weak_crypto, insecure_auth, xxe, path_traversal).
C18_PatternSeverityTiers ==
    Returned("_run_code_security_checks") =>
        \A k \in DOMAIN result.value.findings :
            /\ result.value.findings[k].type
                  \in {"sql_injection", "command_injection", "insecure_deserialization"}
                     => result.value.findings[k].severity = "high"
            /\ result.value.findings[k].type
                  \in {"xss", "weak_crypto", "insecure_auth", "xxe", "path_traversal"}
                     => result.value.findings[k].severity = "medium"
            /\ result.value.findings[k].severity \in {"high", "medium"}

C18_Witness ==
    /\ Returned("_run_code_security_checks")
    /\ Len(result.value.findings) = 2
    /\ result.value.findings[1] = [file |-> 1, type |-> "sql_injection", severity |-> "high"]
    /\ result.value.findings[2] = [file |-> 2, type |-> "weak_crypto", severity |-> "medium"]

\* The number of targets of a type
Targets(targets, type) == Cardinality({ i \in DOMAIN targets : targets[i].type = type })

\* C19: when the invocation of a web scanner raises, _run_web_security_checks
\* returns an entry in which that scanner's result is tagged as an error and
\* the other scanner's result is what that scanner produced; and whatever the
\* scanners did, run_security_checks returns one entry for every web target
\* and one for every code target.
C19_WebScannerFailureContained ==
    /\ Returned("_run_web_security_checks") =>
          /\ call.zap.outcome = "raise" =>
                /\ result.value.zap.error
                /\ result.value.zap.alerts = <<>>
                /\ call.nuclei.outcome = "report" =>
                      /\ ~result.value.nuclei.error
                      /\ result.value.nuclei.findings = call.nuclei.items
          /\ call.nuclei.outcome = "raise" =>
                /\ result.value.nuclei.error
                /\ call.zap.outcome = "report" =>
                      /\ ~result.value.zap.error
                      /\ result.value.zap.alerts = call.zap.items
    /\ Returned("run_security_checks") =>
          /\ Len(result.value.web.items) = Targets(call.targets, "web")
          /\ Len(result.value.code.items) = Targets(call.targets, "code")

C19_Witness ==
    /\ Returned("_run_web_security_checks")
    /\ call.zap.outcome = "raise"
    /\ call.nuclei = ScannerRun("report", <<"critical">>)
    /\ result.value.zap.error
    /\ result.value.nuclei.findings = <<"critical">>

\* C20: whatever the notification post does (no webhook, posted, raised), the
\* run goes on to the cache save and returns what it returns when the post
\* succeeds: its results, saved under 'latest_scan' unless skip_cache is set,
\* or False when that save raises.
C20_NotificationFailureHarmless ==
    \A i \in DOMAIN log :
        log[i].op = "post" =>
            /\ pc \in {"save_latest", "done"}
            /\ pc = "save_latest" => (i = Len(log) /\ ret = NoValue)
            /\ pc = "done" =>
                  /\ Len(log) = i + 1
                  /\ \/ /\ log[i + 1] = Ev("return", "saved")
                        /\ ~skip_cache
                        /\ ret = PipelineResults
                        /\ get_scan_results(cache, LatestKey) = ResultsWrapper(PipelineResults)
                     \/ /\ log[i + 1] = Ev("return", "unsaved")
                        /\ skip_cache
                        /\ ret = PipelineResults
                     \/ /\ log[i + 1] = Ev("save_scan_results", "raise")
                        /\ ~skip_cache
                        /\ ret = FalseV

C20_Witness ==
    /\ pc = "done"
    /\ Has("post", "raise")
    /\ Has("return", "saved")
    /\ ret = PipelineResults
    /\ get_scan_results(cache, LatestKey) = ResultsWrapper(PipelineResults)

Phase(op) ==
    CASE op \in {"get_scan_results", "run_security_checks"} -> 1
      [] op = "run_architecture_review" -> 2
      [] op = "max" -> 3
      [] op = "create_fix_branch" -> 4
      [] op \in {"implement_fixes", "validate_fixes"} -> 5
      [] op \in {"create_pull_request", "post"} -> 6
      [] OTHER -> 7

\* The latest operation of the run and the one before it.  The log only
\* grows during a run, one operation at a time, so what holds of these two in
\* every state holds of every two consecutive operations of every run.
Last == log[Len(log)]
Prev == log[Len(log) - 1]

\* C22: one run moves through its phases in one direction only: the initial
\* scan happens at most once, create_fix_branch at most once and only after
\* the threshold check, create_pull_request at most once and only after the
\* fix/validate loop has ended, and the fix/validate cycle is entered at most
\* max_fix_attempts times.
C22_PhasesOneDirectional ==
    /\ Count("run_security_checks") <= 1
    /\ Count("create_fix_branch") <= 1
    /\ Count("create_pull_request") <= 1
    /\ Count("implement_fixes") <= max_fix_attempts
    /\ Len(log) >= 2 =>
          /\ Phase(Prev.op) <= Phase(Last.op)
          /\ Prev.op # "create_pull_request"
    /\ (log # <<>> /\ Last.op = "create_fix_branch") =>
          (Len(log) >= 2 /\ Prev = Ev("max", "ok"))
    /\ (log # <<>> /\ Last.op = "create_pull_request") =>
          (pc = "done" /\ Len(log) >= 2 /\ Prev = Ev("validate_fixes", "True"))

C22_Witness ==
    /\ pc = "done"
    /\ Count("run_security_checks") = 1
    /\ Count("create_fix_branch") = 1
    /\ Count("implement_fixes") >= 2
    /\ Has("validate_fixes", "True")
    /\ Has("create_pull_request", "ok")

\* The stages of a run; operations that belong to no stage have stage 0.
\* A scan is a fresh run_security_checks or the cached result taken for it.
IsScan(e) == e.op = "run_security_checks" \/ e = Ev("get_scan_results", "hit")
IsStage(e) ==
    \/ IsScan(e)
    \/ e.op \in {"run_architecture_review", "max", "create_fix_branch", "implement_fixes",
                 "validate_fixes", "create_pull_request", "post"}

ClaimedStage(e) ==
    CASE e.op = "run_architecture_review" -> 1
      [] IsScan(e) -> 2
      [] e.op = "max" -> 3
      [] e.op \in {"create_fix_branch", "implement_fixes", "validate_fixes"} -> 4
      [] e.op = "create_pull_request" -> 5
      [] e.op = "post" -> 6

\* The order of the code; a cache lookup belongs to the scan, and what ends
\* the run comes last.
CodeStage(e) ==
    CASE IsScan(e) \/ e.op = "get_scan_results" -> 1
      [] e.op = "run_architecture_review" -> 2
      [] e.op = "max" -> 3
      [] e.op \in {"create_fix_branch", "implement_fixes", "validate_fixes"} -> 4
      [] e.op = "create_pull_request" -> 5
      [] e.op = "post" -> 6
      [] OTHER -> 7

\* C23 as stated: the stages that occur do so in the order architecture review,
\* scan, threshold check, remediation loop, PR creation, notification; the
\* review is invoked before the scan.  Violated: the scan comes first.
C23_ReviewBeforeScan_AsClaimed ==
    \A i, j \in DOMAIN log :
        (i < j /\ IsStage(log[i]) /\ IsStage(log[j])) =>
            ClaimedStage(log[i]) <= ClaimedStage(log[j])

\* C23 amended: the stages that occur do so in the order scan, architecture
\* review, threshold check, remediation loop, PR creation; the scan (or the
\* cached result taken for it) precedes the review, and the notification is
\* sent only after a threshold check that found nothing critical, in a run
\* without remediation or pull request.
C23_ScanBeforeReview ==
    /\ Len(log) >= 2 => CodeStage(Prev) <= CodeStage(Last)
    /\ (log # <<>> /\ Last.op = "run_architecture_review") =>
          (Len(log) >= 2 /\ IsScan(Prev))
    /\ (log # <<>> /\ Last.op = "post") =>
          /\ Len(log) >= 2
          /\ Prev = Ev("max", "ok")
          /\ max_severity < critical_threshold
          /\ Count("create_fix_branch") = 0
          /\ Count("implement_fixes") = 0
          /\ Count("create_pull_request") = 0

C23_Witness ==
    /\ Has("run_security_checks", "saved")
    /\ Has("run_architecture_review", "ok")
    /\ Has("max", "ok")
    /\ Has("post", "ok")
    /\ pc = "done"

\* C24 as claimed: every entry run_pipeline writes to the cache, under any key
\* including 'latest_scan', holds a ScanResult with both the 'web' and the
\* 'code' group present as lists, one that passes _validate_cached_results.
\* Violated by the entry written under 'latest_scan'.
C24_CacheWritesAreScanResults_AsClaimed ==
    [][\A key \in CacheKeys :
          cache'[key] # cache[key] => _validate_cached_results(cache'[key])]_vars

\* The requests that went through one limiter, by position in api.
Through(write) == { i \in DOMAIN api : (api[i].method \in WriteMethods) = write }

\* The requests of one limiter allowed to proceed in the interval of length
\* time_window that starts with request i.
InWindow(write, i, time_window) ==
    { j \in Through(write) : api[i].at <= api[j].at /\ api[j].at < api[i].at + time_window }

\* C25 as claimed: for a RateLimiter(max_requests, time_window) and calls of
\* wait_if_needed at non-decreasing times, the number of calls that return
\* within any interval of length time_window never exceeds max_requests.
\* Violated: the call is recorded at the time before the sleep, and a call
\* made when the oldest recorded request is exactly time_window old does not
\* sleep however many requests are recorded.
C25_RateLimitRespected_AsClaimed ==
    /\ \A i \in Through(TRUE) :
          Cardinality(InWindow(TRUE, i, write_limiter.time_window)) <= write_limiter.max_requests
    /\ \A i \in Through(FALSE) :
          Cardinality(InWindow(FALSE, i, read_limiter.time_window)) <= read_limiter.max_requests

\* C26: submit_report raises ValueError whenever title, vulnerability_info or
\* impact is empty or whitespace-only; no API request is issued then and both
\* rate limiters stay as they were.
C26_InvalidReportRejected ==
    [][(/\ call'.n # call.n
        /\ call'.fn = "submit_report"
        /\ \/ call'.title \in {"", "  "}
           \/ call'.vulnerability_info \in {"", "  "}
           \/ call'.impact \in {"", "  "})
       => /\ result'.value = "ValueError"
          /\ api' = api
          /\ read_limiter' = read_limiter
          /\ write_limiter' = write_limiter]_vars

C26_Witness ==
    /\ call.fn = "submit_report"
    /\ call.title = "x"
    /\ call.vulnerability_info = "x"
    /\ call.impact = "  "
    /\ call.attachments # <<>>
    /\ result.value = "ValueError"
    /\ api # <<>>
    /\ write_limiter.requests # <<>>

\* C27: run_aider_command, when one of the given files does not exist and the
\* aider executable is found, raises RuntimeError whose message contains
\* 'No such file' and never starts the aider process.
C27_MissingFileRejected ==
    (/\ Returned("run_aider_command")
     /\ call.which \in {"found", "installed"}
     /\ \E i \in DOMAIN call.files : call.files[i] = "missing")
    => /\ result.value.raised = "RuntimeError"
       /\ result.value.message = "No such file or directory"
       /\ ~result.value.started

C27_Witness ==
    /\ Returned("run_aider_command")
    /\ call.which = "found"
    /\ call.files = <<"exists", "missing">>
    /\ call.run = "ok"
    /\ result.value.raised = "RuntimeError"
    /\ ~result.value.started

\* A web result entry: both scanners' keys present, every finding a dict.
WebResultEntry(e) ==
    /\ e.has_zap
    /\ e.has_nuclei
    /\ \A i \in DOMAIN e.alerts : e.alerts[i] >= 0
    /\ \A i \in DOMAIN e.findings : e.findings[i] # "#"

\* C28 as claimed: the max severity of a web result entry is the maximum over
\* the findings of both scanners: max(highest ZAP riskcode, highest mapped
\* nuclei label).  Violated: an entry with a 'zap' key is scored by its
\* alerts alone.
C28_WebEntryMaxOverBothScanners_AsClaimed ==
    (Returned("_get_max_severity") /\ WebResultEntry(call.result)) =>
        LET e == call.result
        IN  result.value =
               SetMax({ e.alerts[i] * 10 : i \in DOMAIN e.alerts }
                      \cup { severity_map(e.findings[i]) : i \in DOMAIN e.findings })

\* The targets of one type, in configured order.
RECURSIVE OfType(_, _)
OfType(targets, type) ==
    IF targets = <<>> THEN <<>>
    ELSE IF Head(targets).type = type
         THEN <<Head(targets)>> \o OfType(Tail(targets), type)
         ELSE OfType(Tail(targets), type)

\* C29: for every list of configured targets run_security_checks returns a
\* result with both a 'web' and a 'code' list; the web list holds the web
\* adapter's entry of each web target and the code list the code adapter's
\* entry of each code target, in configured order; a target of any other
\* type contributes nothing.
C29_OneEntryPerTargetInOrder ==
    Returned("run_security_checks") =>
        LET web == OfType(call.targets, "web")
            code == OfType(call.targets, "code")
            v == result.value
        IN  /\ WellFormed(v)
            /\ v.web.items =
                  [i \in 1..Len(web) |->
                      WebEntry(_run_web_security_checks(web[i].run.zap, web[i].run.nuclei))]
            /\ v.code.items =
                  [i \in 1..Len(code) |->
                      CodeEntry(_run_code_security_checks(code[i].run.tree,
                                                          code[i].run.dependency))]

C29_Witness ==
    /\ Returned("run_security_checks")
    /\ Len(call.targets) = 2
    /\ call.targets[1].type = "web"
    /\ call.targets[2].type = "web"
    /\ call.targets[1].run.zap.outcome = "report"
    /\ call.targets[2].run.zap.outcome = "raise"
    /\ Len(result.value.web.items) = 2
    /\ result.value.web.items[1] # result.value.web.items[2]
    /\ result.value.code.items = <<>>

\* C30 as claimed: for every category of the pattern taxonomy and every
\* pattern listed for it, a scanned source file whose content contains that
\* pattern verbatim yields a finding of that category for that file (trees
\* whose files can all be read).  Violated: the content is lower-cased before
\* the comparison and the patterns are not, so a pattern with a capital
\* letter never matches.
C30_EveryPatternFlags_AsClaimed ==
    (/\ Returned("_run_code_security_checks")
     /\ \A i \in DOMAIN call.tree : call.tree[i].readable)
    => \A i \in DOMAIN call.tree, k \in DOMAIN VulnTypes :
          (/\ call.tree[i].ext \in ScannedExtensions
           /\ \E pattern \in security_patterns(VulnTypes[k]) :
                 In(pattern, call.tree[i].content))
          => \E j \in DOMAIN result.value.findings :
                /\ result.value.findings[j].file = i
                /\ result.value.findings[j].type = VulnTypes[k]

\* C31: for every max_fix_attempts >= 0 and every sequence of collaborator
\* outcomes run_pipeline terminates, having called implement_fixes at most
\* max_fix_attempts times and validate_fixes at most as often as
\* implement_fixes; with max_fix_attempts = 0 and severity at or above the
\* threshold the run ends in failure after creating the branch, with no fix
\* attempt.
C31_RunTerminates ==
    /\ [](/\ Count("implement_fixes") <= max_fix_attempts
          /\ Count("validate_fixes") <= Count("implement_fixes")
          /\ (/\ max_fix_attempts = 0
              /\ pc = "done"
              /\ Has("max", "ok")
              /\ max_severity >= critical_threshold)
             => /\ Count("create_fix_branch") = 1
                /\ Count("implement_fixes") = 0
                /\ Count("create_pull_request") = 0
                /\ ret = FalseV)
    /\ (pc \notin {"idle", "done"}) ~> (pc = "done")

C31_Witness ==
    /\ max_fix_attempts = 0
    /\ pc = "done"
    /\ max_severity >= critical_threshold
    /\ Has("create_fix_branch", "ok")
    /\ Count("implement_fixes") = 0
    /\ ret = FalseV
    /\ progress.message = "Max fix attempts reached without success"

\* A run that took the no-critical path and saved 'latest_scan' returned its
\* results dict (line 400); no other place writes 'latest_scan'.
SavingRunReturned ==
    (pc = "done" /\ Has("return", "saved")) => ret = PipelineResults

\* C32 as claimed: with a cache that gives back what was saved, of two
\* consecutive runs with skip_cache false, the first taking the no-critical
\* path and saving 'latest_scan', the second (the cache hit) returns the value
\* the first returned.  Violated: the first run saves {'results': results}
\* and the second returns that wrapper.
C32_CacheHitReturnsSameResults_AsClaimed ==
    (pc = "done" /\ Has("get_scan_results", "latest_hit")) => ret = PipelineResults

C34_PercentsMonotonic ==
    /\ \A i \in 1..Len(progress.percents) : progress.percents[i] \in 0..100
    /\ \A i \in 1..(Len(progress.percents) - 1) :
          progress.percents[i] <= progress.percents[i + 1]

\* a run that rejected a cached entry, scanned, reviewed and went through
\* two fix attempts to the pull request: 10, 15, 20, 40, 60, 70, 80, 80, 90
C34_Witness ==
    /\ pc = "done"
    /\ Len(progress.percents) >= 9
    /\ progress.percents[1] = 10
    /\ progress.percents[2] = 15
    /\ progress.percents[3] = 20
    /\ Count("implement_fixes") = 2
    /\ progress.percents[Len(progress.percents)] = 90

\* On the five paths that run to the end of the pipeline (no critical
\* vulnerabilities, branch failure, pull request created or failed, attempts
\* exhausted) progress.finish is called exactly once, and never before the
\* run has decided its outcome.
FinishedOnceOnFullPaths ==
    /\ progress.finished <= 1
    /\ (/\ pc = "done"
        /\ ~Has("get_scan_results", "latest_hit")
        /\ \A i \in DOMAIN log : log[i].out # "raise") => progress.finished = 1

\* C35 as claimed: in every execution of run_pipeline progress.start is
\* followed by exactly one progress.finish before the call returns, on every
\* return path.  Violated: the 'latest_scan' cache hit returns at line 325
\* and the exception handler returns at line 404, both without a finish.
C35_FinishOnEveryReturn_AsClaimed ==
    pc = "done" => (progress.started = 1 /\ progress.finished = 1)

\* The last handler was 'Switch Model' and it ran to its rerun without error.
Switched ==
    /\ gui.last.fn = "do_model_settings"
    /\ gui.last.out = "ok"

\* 'Switch Model' never changes state.current_model: the key was recorded by
\* initialize_state, so State.init returns before the assignment.
SwitchLeavesCurrentModel ==
    [][SwitchModel =>
         gui'.state.attrs["current_model"] = gui.state.attrs["current_model"]]_vars

\* C36 as claimed: after the 'Switch Model' action completes without error,
\* state.current_model equals the newly selected model, whatever model
\* initialize_state recorded before.  Violated: State.init leaves a recorded
\* key alone, so current_model stays what initialize_state stored.
C36_SwitchSetsCurrentModel_AsClaimed ==
    Switched => gui.state.attrs["current_model"] = gui.last.model

\* C37: for one pending prompt process_chat runs the coder at most
\* 1 + max_reflections = 4 times, whatever reflected messages the coder keeps
\* producing, and then terminates; state.prompt is cleared before the first
\* run, so the prompt is not pending while the loop runs nor when it ends.
C37_ChatRunsAtMostFour ==
    /\ [](/\ gui.runs <= 4
          /\ gui.num_reflections <= 3
          /\ gui.runs <= 1 + gui.num_reflections
          /\ gui.pc = "loop" => ~prompt_pending)
    /\ [][(RunStream \/ FinishChat) => ~prompt_pending']_vars
    /\ (gui.pc = "loop") ~> (gui.pc = "ready")

\* the coder left a reflected message after each of four runs, and
\* process_chat ended with nothing pending
C37_Witness ==
    /\ gui.pc = "ready"
    /\ gui.message = "edit"
    /\ gui.runs = 4
    /\ gui.num_reflections = 3
    /\ gui.coder.reflected_message = "fix"
    /\ ~prompt_pending

\* C38: do_undo invokes the coder's undo command only when the given commit
\* hash equals both state.last_aider_commit_hash and
\* coder.last_aider_commit_hash; in every other case no undo is executed and
\* state.last_undone_commit_hash is left unchanged.
C38_UndoOnlyLatestCommit ==
    [][DoUndo =>
         LET latest == /\ gui.state.attrs["last_aider_commit_hash"] = gui'.last.commit_hash
                       /\ gui.coder.last_aider_commit_hash = gui'.last.commit_hash
         IN  /\ gui'.last.cmd_undo <=> latest
             /\ ~latest =>
                   /\ gui'.state.attrs["last_undone_commit_hash"] =
                          gui.state.attrs["last_undone_commit_hash"]
                   /\ gui'.coder = gui.coder
                   /\ gui'.state = gui.state]_vars

\* both outcomes happened: commit b2 was undone while it was the latest of
\* state and coder, and then an undo of a1 was refused
C38_Witness ==
    /\ gui.last = [fn |-> "do_undo", commit_hash |-> "a1", cmd_undo |-> FALSE]
    /\ gui.state.attrs["last_undone_commit_hash"] = "b2"
    /\ gui.state.attrs["last_aider_commit_hash"] = "b2"

\* C39: monitor_git_changes returns True if and only if the branch, status
\* or recent commits it read differ from the stored previous_* snapshot;
\* after any call the snapshot equals the values just read, so a second call
\* with no repository change since the first began returns False and leaves
\* the snapshot unchanged.
C39_MonitorSnapshot ==
    [][GetRecentCommits =>
         /\ monitor'.returned <=>
               \/ monitor'.current.branch # monitor.previous.branch
               \/ monitor'.current.status # monitor.previous.status
               \/ monitor'.current.commits # monitor.previous.commits
         /\ monitor'.previous = monitor'.current
         /\ (monitor.since >= 1 /\ ~monitor.torn) =>
               /\ ~monitor'.returned
               /\ monitor'.previous = monitor.previous]_vars

\* the status alone changed, a first call returned True and took the
\* snapshot, and a second call on the unchanged repository returned False
C39_Witness ==
    /\ monitor.pc = "ready"
    /\ monitor.since = 2
    /\ ~monitor.returned
    /\ monitor.previous = Reading("main", "dirty", <<"c1">>)
    /\ monitor.repo = Reading("main", "dirty", <<"c1">>)

====
